---- MODULE Spec2Model ----
(***************************************************************************)
(* Model of the resumable evaluation pipeline of peer-review-vs-vanilla:   *)
(* the runner (run_experiment.py), the generation stage                    *)
(* (generate_reviews_dual.py) and the judge stages (judge_pairwise_ab.py), *)
(* with the files they keep on disk (checkpoint.json and the four record   *)
(* logs).  One process runs at a time; a state of the model is the content *)
(* of the files plus the position and the local variables of the running   *)
(* process.                                                                *)
(***************************************************************************)
EXTENDS Integers, Sequences, FiniteSets, TLC

(* ------------------------------------------------------------------ *)
(* Bounds of the model and constants of the program                    *)
(* ------------------------------------------------------------------ *)

\* number of input pairs in pairs.jsonl, in the specifications of the stages
NumPapers == 2

\* number of input pairs in pairs.jsonl, in the specification of the runner
RunnerPapers == 1

\* number of failing generation calls the remote service produces in a behaviour
MaxFailures == 1

\* run_experiment.py: MAX_STEP
MAX_STEP == 4

\* config.py: RANDOM_SEED
RANDOM_SEED == 42

\* run_experiment.py: str(e)[:200]
ERROR_MSG_LIMIT == 200

\* config.py: MAX_RETRIES
MAX_RETRIES == 3

\* llm_client.py: RETRYABLE_STATUS_CODES
RETRYABLE_STATUS_CODES == {429, 500, 502, 503, 504}

\* longest text of a response
MaxContentLen == 2

\* most blanks on either side of a winner value
MaxWinnerPad == 1

\* largest number of trials of a binomial test
MaxTrials == 5

\* largest number of wins of a condition in a judge log
MaxWins == 8

\* largest number of ties in a judge log
MaxTies == 2

\* longest outcome list of a judge in the agreement of two judges
MaxOutcomes == 3

\* an optional command-line argument: <<>> is None, <<k>> is the integer k
ArgValues == {<<>>} \cup {<<k>> : k \in 0..MAX_STEP}

\* every command line of a run (without --status)
AllArgs == [from_step : ArgValues, step : ArgValues]

\* the command lines that give at most one of --from and --step
SingleArgs == {a \in AllArgs : a.from_step = <<>> \/ a.step = <<>>}

\* lengths of the messages of the exceptions a stage body can raise
MsgLens == {40, 250}

VARIABLES
    checkpoint,         \* outputs/checkpoint.json
    reviews_peer,       \* outputs/generations/reviews_peer.jsonl
    reviews_vanilla,    \* outputs/generations/reviews_vanilla.jsonl
    judgments,          \* judge |-> rows of the judge's judgments file
    judgments_exist,    \* judge |-> whether the judge's judgments file exists
    pc,                 \* position of the running process, "idle" when none runs
    entry,              \* the script the running process was started as
    api_key,            \* whether OPENROUTER_API_KEY is set for the running process
    args,               \* parsed command line of the running process
    steps_to_run,       \* main: steps_to_run
    step_idx,           \* main: number of loop iterations started
    step_num,           \* main: step_num
    shutdown_requested, \* _shutdown_requested
    global_rng,         \* state of the module-level generator of random
    judge,              \* judge_pairwise_ab.main: args.judge (0 outside it)
    done_peer,          \* generate_reviews_dual.main: done_peer
    done_vanilla,       \* generate_reviews_dual.main: done_vanilla
    common_ids,         \* judge_pairwise_ab.main: common_ids
    done_ids,           \* judge_pairwise_ab.main: done_ids
    idx,                \* position of the paper loop of the running stage
    executed,           \* step functions the current run has called, in order
    failures,           \* failing generation calls so far
    env,                \* the inputs of the behaviour: pairs.jsonl, the command
                        \* lines and the responses of the remote service
    client,             \* LLMClient.generate: attempt, last_error and how it ended
    requests,           \* history: what each request of the current generate call met
    call,               \* a function of statistical_tests: arguments and result
    exit_status,        \* history: how the last run ended
    completed,          \* history: stages whose step function has returned
    gen_run,            \* history: the last execution of generate_reviews_dual.main
    disk_at_start       \* history: last_completed_step on disk when the run began

files == <<checkpoint, reviews_peer, reviews_vanilla, judgments, judgments_exist>>
process == <<pc, entry, api_key, args, steps_to_run, step_idx, step_num, shutdown_requested,
             global_rng, judge, done_peer, done_vanilla, common_ids, done_ids, idx,
             executed>>
history == <<exit_status, completed, gen_run, disk_at_start>>
functions == <<client, requests, call>>
vars == <<checkpoint, reviews_peer, reviews_vanilla, judgments, judgments_exist,
          pc, entry, api_key, args, steps_to_run, step_idx, step_num, shutdown_requested,
          global_rng, judge, done_peer, done_vanilla, common_ids, done_ids, idx,
          executed, failures, env, client, requests, call, exit_status, completed,
          gen_run, disk_at_start>>

\* pairs.jsonl: the paper ids in file order
Pairs == env.pairs

(* ------------------------------------------------------------------ *)
(* Helpers                                                             *)
(* ------------------------------------------------------------------ *)

Min(a, b) == IF a <= b THEN a ELSE b

Range(s) == {s[i] : i \in 1..Len(s)}

RECURSIVE SortedSeq(_)
\* sorted(S) for a finite set of paper ids
SortedSeq(S) ==
    IF S = {} THEN <<>>
    ELSE LET m == CHOOSE x \in S : \A y \in S : x <= y
         IN <<m>> \o SortedSeq(S \ {m})

\* range(a, b + 1) as a list
RangeSeq(a, b) == [i \in 1..(IF b >= a THEN b - a + 1 ELSE 0) |-> a + i - 1]

(* ------------------------------------------------------------------ *)
(* Files                                                               *)
(* ------------------------------------------------------------------ *)

NoCheckpoint ==
    [exists |-> FALSE, last_completed_step |-> 0, status |-> "none",
     at_step |-> 0, msg_len |-> 0]

\* save_checkpoint(step, status): the file is overwritten.  A status
\* f"{tag}_{at_step}: {msg}" is kept as its tag, its step and the length of msg.
save_checkpoint(step, status, at_step, msg_len) ==
    [exists |-> TRUE, last_completed_step |-> step, status |-> status,
     at_step |-> at_step, msg_len |-> msg_len]

\* fault: the checkpoint file is never read, the default is always returned
load_checkpoint_default ==
    [exists |-> FALSE, last_completed_step |-> 0, status |-> "not_started",
     at_step |-> 0, msg_len |-> 0]

\* load_checkpoint(): the file, or the default when there is none
load_checkpoint ==
    IF checkpoint.exists THEN checkpoint
    ELSE [exists |-> FALSE, last_completed_step |-> 0, status |-> "not_started",
          at_step |-> 0, msg_len |-> 0]

\* count_jsonl(path)
count_jsonl(rows) == Len(rows)

\* count_successful(path)
count_successful(rows) == Cardinality({i \in 1..Len(rows) : rows[i].error = "none"})

\* fault: every id in the log counts as done, failed records included
gen_load_existing_ids_all(rows) == {rows[i].paper_id : i \in 1..Len(rows)}

\* generate_reviews_dual.load_existing_ids(path)
gen_load_existing_ids(rows) ==
    {rows[i].paper_id : i \in {j \in 1..Len(rows) : rows[j].error = "none"}}

\* fault: only the records of answered calls count as judged
judge_load_existing_ids_verdicts(rows) ==
    {rows[i].paper_id : i \in {j \in 1..Len(rows) : rows[j].reasoning # "ERROR"}}

\* judge_pairwise_ab.load_existing_ids(path)
judge_load_existing_ids(rows) == {rows[i].paper_id : i \in 1..Len(rows)}

\* fault: the log is always opened for writing
open_mode_truncate(done) == "w"

\* mode = "a" if done else "w"
open_mode(done) == IF done # {} THEN "a" ELSE "w"

\* the rows of a file right after open(path, mode)
opened(rows, mode) == IF mode = "a" THEN rows ELSE <<>>

(* ------------------------------------------------------------------ *)
(* Generation records                                                  *)
(* ------------------------------------------------------------------ *)

\* fault: the except branch is lost, every call is recorded as a success
gen_result_no_error(paper_id, condition, resp) ==
    [paper_id |-> paper_id, condition |-> condition, error |-> "none"]

\* peer_result / vanilla_result of generate_reviews_dual.main for one call
gen_result(paper_id, condition, resp) ==
    [paper_id |-> paper_id, condition |-> condition,
     error |-> CASE resp = "ok" -> "none"
                 [] resp = "invalid" -> "INVALID"
                 [] OTHER -> "HTTP"]

\* first position >= i of all_pairs whose paper is not in done_both
RECURSIVE gen_next_idx(_)
gen_next_idx(i) ==
    IF i > Len(Pairs) THEN i
    ELSE IF Pairs[i] \in (done_peer \cap done_vanilla) THEN gen_next_idx(i + 1)
    ELSE i

(* ------------------------------------------------------------------ *)
(* Blind A/B assignment                                                *)
(* ------------------------------------------------------------------ *)

\* int(hashlib.md5(paper_id.encode()).hexdigest()[:8], 16): a fixed function
\* of the paper id (a small multiplicative hash stands for MD5)
md5_prefix(paper_id) == paper_id * 3

\* random.Random(seed) / random.seed(seed): the generator state a seed gives
\* (a linear congruential generator modulo 8 stands for the Mersenne twister)
rng_seeded(seed) == seed % 8

\* one call of random(): whether the value drawn is < 0.5, and the next state
rng_random(state) ==
    [below_half |-> state * 2 < 8, next |-> (5 * state + 3) % 8]

\* fault: the draw is taken from the global generator instead of a generator
\* seeded from the paper id
blind_assignment_global(paper_id, g) ==
    IF rng_random(g).below_half
    THEN [cond_A |-> "peer", cond_B |-> "vanilla", global_rng |-> rng_random(g).next]
    ELSE [cond_A |-> "vanilla", cond_B |-> "peer", global_rng |-> rng_random(g).next]

\* judge_pairwise_ab.main, the mapping of the two conditions to the slots A and
\* B for one paper; g is the state of the global generator, returned as the
\* draw leaves it
blind_assignment(paper_id, g) ==
    LET seed == md5_prefix(paper_id)
        rng == rng_seeded(RANDOM_SEED + seed)
    IN IF rng_random(rng).below_half
       THEN [cond_A |-> "peer", cond_B |-> "vanilla", global_rng |-> g]
       ELSE [cond_A |-> "vanilla", cond_B |-> "peer", global_rng |-> g]

(* ------------------------------------------------------------------ *)
(* Judgment records                                                    *)
(* ------------------------------------------------------------------ *)

\* parsed: what the try block of the judge loop leaves in parsed for a response
\* that does not raise past it
judge_parsed(resp) ==
    IF resp = "error" THEN [winner |-> "tie", reasoning |-> "ERROR"]
    ELSE [winner |-> resp, reasoning |-> "text"]

\* result of the judge loop for one paper
judge_result(paper_id, assignment, resp) ==
    [paper_id |-> paper_id, cond_A |-> assignment.cond_A,
     cond_B |-> assignment.cond_B, winner |-> judge_parsed(resp).winner,
     reasoning |-> judge_parsed(resp).reasoning]

\* peer_by_id[paper_id] / vanilla_by_id[paper_id]: the row of the review log
\* kept for the paper, the last one with error None; the lookup of a paper
\* with no such row is a KeyError
review_row(log, paper_id) ==
    LET rows == {i \in 1..Len(log) : log[i].paper_id = paper_id /\ log[i].error = "none"}
    IN IF rows = {}
       THEN [paper_id |-> paper_id, condition |-> "none", error |-> "KeyError"]
       ELSE log[CHOOSE i \in rows : \A k \in rows : k <= i]

\* fault: the peer review is put in slot A whatever the draw
prompt_reviews_peer_first(paper_id, peer_review, vanilla_review) ==
    [fn |-> "client.generate", paper_id |-> paper_id,
     review_A |-> peer_review, review_B |-> vanilla_review]

\* the prompt of the judge loop for one paper: the reviews that take the
\* places of {review_A} and {review_B} in the template
prompt_reviews(paper_id, peer_review, vanilla_review) ==
    IF blind_assignment(paper_id, 0).cond_A = "peer"
    THEN [fn |-> "client.generate", paper_id |-> paper_id,
          review_A |-> peer_review, review_B |-> vanilla_review]
    ELSE [fn |-> "client.generate", paper_id |-> paper_id,
          review_A |-> vanilla_review, review_B |-> peer_review]

\* fault: the loop does not look at done_ids
judge_next_idx_no_skip(i) == i

\* first position >= i of common_ids whose paper is not in done_ids
RECURSIVE judge_next_idx(_)
judge_next_idx(i) ==
    IF i > Len(common_ids) THEN i
    ELSE IF common_ids[i] \in done_ids THEN judge_next_idx(i + 1)
    ELSE i

\* fault: the vanilla review log is not looked at
judge_common_ids_peer_only ==
    SortedSeq(Range(Pairs) \cap gen_load_existing_ids(reviews_peer))

\* the papers with a successful review in both logs (and in pairs.jsonl), sorted
judge_common_ids ==
    SortedSeq(Range(Pairs) \cap gen_load_existing_ids(reviews_peer)
                           \cap gen_load_existing_ids(reviews_vanilla))

\* summarize_judgments / resolve_winner call .lower() on the winner: a winner
\* that is a number raises AttributeError
stage4_raises ==
    \E j \in {1, 2} :
        /\ judgments_exist[j]
        /\ \E i \in 1..Len(judgments[j]) : judgments[j][i].winner = "number"

(* ------------------------------------------------------------------ *)
(* The runner: run_experiment.main                                     *)
(* ------------------------------------------------------------------ *)

\* Python truth value of an optional integer argument
truthy(a) == a # <<>> /\ a[1] # 0

\* STEPS: step number |-> the step function
STEPS(k) ==
    CASE k = 1 -> "step_1_generate_reviews"
      [] k = 2 -> "step_2_judge_primary"
      [] k = 3 -> "step_3_judge_secondary"
      [] k = 4 -> "step_4_summarize_and_stats"

\* whether main takes the auto-resume branch
auto_resume(a) == ~truthy(a.step) /\ ~truthy(a.from_step)

\* fault: auto-resume ignores the checkpoint and starts at step 1
determine_steps_from_first(a) ==
    IF truthy(a.step) THEN <<a.step[1]>>
    ELSE IF truthy(a.from_step) THEN RangeSeq(a.from_step[1], MAX_STEP)
    ELSE RangeSeq(1, MAX_STEP)

\* fault: --from is looked at before --step
determine_steps_from_wins(a) ==
    IF truthy(a.from_step) THEN RangeSeq(a.from_step[1], MAX_STEP)
    ELSE IF truthy(a.step) THEN <<a.step[1]>>
    ELSE RangeSeq(load_checkpoint.last_completed_step + 1, MAX_STEP)

\* main, "Determine which steps to run": steps_to_run for the parsed arguments
\* and the checkpoint on disk (<<>> when the experiment is already complete)
determine_steps(a) ==
    IF truthy(a.step) THEN <<a.step[1]>>
    ELSE IF truthy(a.from_step) THEN RangeSeq(a.from_step[1], MAX_STEP)
    ELSE RangeSeq(load_checkpoint.last_completed_step + 1, MAX_STEP)

\* auto-resume finds start > MAX_STEP: "Experiment already complete!"
already_complete(a) ==
    auto_resume(a) /\ load_checkpoint.last_completed_step + 1 > MAX_STEP

\* fault: the message is stored whole
untruncated_len(msg_len) == msg_len

\* str(e)[:200]
truncated_len(msg_len) == Min(msg_len, ERROR_MSG_LIMIT)

\* except Exception in main: the checkpoint written when step k raises
error_checkpoint(k, msg_len) ==
    save_checkpoint(k - 1, "error_at_step", k, truncated_len(msg_len))

NoArgs == [from_step |-> <<>>, step |-> <<>>]

\* no function has been applied
NoCall == [fn |-> "none"]

InGen == pc \in {"gen_loop", "gen_peer_call", "gen_vanilla_call"}
Running == pc # "idle"

LastOf(s) == IF s = <<>> THEN 0 ELSE s[Len(s)]

\* a history variable is updated only in the specifications that follow it
Tracked(name, new, old) == IF name \in env.track THEN new ELSE old

\* the process ends: its memory is gone, the files stay.  The history keeps how
\* it ended and, when it ended between two steps, the last step that had returned.
EndProcess(kind) ==
    /\ pc' = "idle"
    /\ entry' = "none"
    /\ api_key' = FALSE
    /\ args' = NoArgs
    /\ steps_to_run' = <<>>
    /\ step_idx' = 0
    /\ step_num' = 0
    /\ shutdown_requested' = FALSE
    /\ global_rng' = 0
    /\ judge' = 0
    /\ done_peer' = {}
    /\ done_vanilla' = {}
    /\ common_ids' = <<>>
    /\ done_ids' = {}
    /\ idx' = 0
    /\ executed' = <<>>
    /\ exit_status' = Tracked("exit",
                              [kind |-> kind,
                               after |-> IF pc = "main_loop" THEN LastOf(executed)
                                         ELSE 0],
                              exit_status)
    /\ gen_run' = Tracked("gen_run",
                          IF InGen THEN [last |-> "aborted", failed |-> FALSE]
                          ELSE gen_run,
                          gen_run)
    /\ disk_at_start' = 0

\* fault: the check of the key is lost
main_path_no_key_check(status, key) == IF status THEN "print_status" ELSE "steps"

\* main up to the determination of the steps, for the flag --status and for
\* whether OPENROUTER_API_KEY is set: what main goes on to do
main_path(status, key) ==
    IF status THEN "print_status"
    ELSE IF ~key THEN "sys.exit(1)"
    ELSE "steps"

\* fault: the failed records of the review logs are counted too
get_status_all_lines ==
    [checkpoint |-> load_checkpoint,
     pairs |-> count_jsonl(Pairs),
     reviews_peer |-> count_jsonl(reviews_peer),
     reviews_vanilla |-> count_jsonl(reviews_vanilla),
     judgments_claude |-> count_jsonl(judgments[1]),
     judgments_gpt |-> count_jsonl(judgments[2])]

\* get_status(): the checkpoint and the counts, read from the files
get_status ==
    [checkpoint |-> load_checkpoint,
     pairs |-> count_jsonl(Pairs),
     reviews_peer |-> count_successful(reviews_peer),
     reviews_vanilla |-> count_successful(reviews_vanilla),
     judgments_claude |-> count_jsonl(judgments[1]),
     judgments_gpt |-> count_jsonl(judgments[2])]

\* python run_experiment.py --status: print_status and return
RunStatus ==
    /\ pc = "idle"
    /\ \E key \in BOOLEAN :
         /\ main_path(TRUE, key) = "print_status"
         /\ call' = Tracked("status",
                            [fn |-> "get_status", api_key |-> key, result |-> get_status],
                            call)
    /\ UNCHANGED <<files, process, failures, env, client, requests, history>>

\* OPENROUTER_API_KEY is not set: sys.exit(1) before any step
RunNoKey ==
    /\ pc = "idle"
    /\ main_path(FALSE, FALSE) = "sys.exit(1)"
    /\ exit_status' = Tracked("exit_code", [kind |-> "exit_1", after |-> 0], exit_status)
    /\ UNCHANGED <<files, process, failures, env, functions, completed, gen_run,
                   disk_at_start>>

\* auto-resume with the checkpoint at MAX_STEP: print_status and return
RunAlreadyComplete ==
    /\ pc = "idle"
    /\ \E a \in env.arg_space : already_complete(a)
    /\ UNCHANGED vars

\* main up to the for loop: arguments parsed, key present, steps determined.
\* What the process before it printed or exited with is no longer followed.
RunBegin ==
    /\ pc = "idle"
    /\ \E a \in env.arg_space, g \in env.unseeded, key \in BOOLEAN :
         /\ main_path(FALSE, key) = "steps"
         /\ ~already_complete(a)
         /\ api_key' = key
         /\ args' = a
         /\ steps_to_run' = determine_steps(a)
         /\ global_rng' = g
    /\ pc' = "main_loop"
    /\ entry' = "run_experiment"
    /\ step_idx' = 0
    /\ step_num' = 0
    /\ shutdown_requested' = FALSE
    /\ executed' = <<>>
    /\ disk_at_start' = Tracked("start", load_checkpoint.last_completed_step, 0)
    /\ call' = Tracked("status", NoCall, call)
    /\ exit_status' = Tracked("exit_code", [kind |-> "none", after |-> 0], exit_status)
    /\ UNCHANGED <<files, judge, done_peer, done_vanilla, common_ids, done_ids, idx,
                   failures, env, client, requests, completed, gen_run>>

\* the for loop has run out of steps: print_status, the process ends normally
LoopDone ==
    /\ pc = "main_loop"
    /\ step_idx = Len(steps_to_run)
    /\ EndProcess("done")
    /\ UNCHANGED <<files, failures, env, functions, completed>>

\* if _shutdown_requested: break
LoopShutdown ==
    /\ pc = "main_loop"
    /\ step_idx < Len(steps_to_run)
    /\ shutdown_requested
    /\ EndProcess("cancelled")
    /\ UNCHANGED <<files, failures, env, functions, completed>>

\* the loop calls func of STEPS[step_num]
Dispatch(func) ==
    /\ pc = "main_loop"
    /\ step_idx < Len(steps_to_run)
    /\ ~shutdown_requested
    /\ STEPS(steps_to_run[step_idx + 1]) = func

\* the loop variables once the step function k has been entered
Enter(k) ==
    /\ step_idx' = step_idx + 1
    /\ step_num' = steps_to_run[step_idx + 1]
    /\ executed' = Append(executed, k)
    /\ UNCHANGED <<entry, api_key, args, steps_to_run, shutdown_requested>>

\* the step function k returns
Return(k) == completed' = Tracked("completed", completed \cup {k}, completed)

\* func() raised: the checkpoint of except Exception, then the exception leaves main
StageRaised(k, msg_len) ==
    /\ checkpoint' = error_checkpoint(k, msg_len)
    /\ EndProcess("raised")
    /\ UNCHANGED <<reviews_peer, reviews_vanilla, judgments, judgments_exist,
                   failures, env, functions, completed>>

(* ------------------------------------------------------------------ *)
(* Step 1: step_1_generate_reviews and generate_reviews_dual.main      *)
(* ------------------------------------------------------------------ *)

\* if n_peer >= n_pairs and n_vanilla >= n_pairs
all_reviews_generated ==
    /\ count_successful(reviews_peer) >= count_jsonl(Pairs)
    /\ count_successful(reviews_vanilla) >= count_jsonl(Pairs)

\* "All reviews already generated ... Skipping.": return
Step1Skip ==
    /\ Dispatch("step_1_generate_reviews")
    /\ all_reviews_generated
    /\ Enter(1)
    /\ Return(1)
    /\ UNCHANGED <<files, pc, global_rng, judge, done_peer, done_vanilla, common_ids,
                   done_ids, idx, failures, env, functions, exit_status, gen_run, disk_at_start>>

\* generate_reviews_dual.main up to the paper loop: the done sets are read and
\* both logs are opened, each in the mode its done set gives
GenMainBegin ==
    /\ done_peer' = gen_load_existing_ids(reviews_peer)
    /\ done_vanilla' = gen_load_existing_ids(reviews_vanilla)
    /\ reviews_peer' = opened(reviews_peer, open_mode(done_peer'))
    /\ reviews_vanilla' = opened(reviews_vanilla, open_mode(done_vanilla'))
    /\ idx' = 1
    /\ pc' = "gen_loop"
    /\ gen_run' = Tracked("gen_run", [gen_run EXCEPT !.failed = FALSE], gen_run)
    /\ UNCHANGED <<checkpoint, judgments, judgments_exist, judge, common_ids,
                   done_ids, failures, env, functions, exit_status, completed>>

\* step_1_generate_reviews calls gen_main()
Step1Generate ==
    /\ Dispatch("step_1_generate_reviews")
    /\ ~all_reviews_generated
    /\ Enter(1)
    /\ GenMainBegin
    /\ UNCHANGED <<global_rng, disk_at_start>>

\* python scripts/02_generate_reviews_dual.py: main() of generate_reviews_dual
\* run on its own, without the runner and its checkpoint
Script02Begin ==
    /\ pc = "idle"
    /\ entry' = "02_generate_reviews_dual"
    /\ api_key' = TRUE
    /\ \E g \in env.unseeded : global_rng' = g
    /\ GenMainBegin
    /\ UNCHANGED <<args, steps_to_run, step_idx, step_num, shutdown_requested,
                   executed, disk_at_start>>

\* gen_main() raises before it opens the logs (load_prompt: a prompt file is missing)
Step1Raises ==
    /\ Dispatch("step_1_generate_reviews")
    /\ ~all_reviews_generated
    /\ \E m \in MsgLens : StageRaised(steps_to_run[step_idx + 1], m)

\* top of the paper loop: papers in done_both are skipped, the next call is
\* issued, or the loop ends and gen_main returns
GenLoopStep ==
    /\ pc = "gen_loop"
    /\ LET j == gen_next_idx(idx)
       IN IF j > Len(Pairs)
          THEN /\ pc' = IF entry = "run_experiment" THEN "step_1_end" ELSE "idle"
               /\ entry' = IF entry = "run_experiment" THEN entry ELSE "none"
               /\ api_key' = IF entry = "run_experiment" THEN api_key ELSE FALSE
               /\ global_rng' = IF entry = "run_experiment" THEN global_rng ELSE 0
               /\ idx' = 0
               /\ done_peer' = {}
               /\ done_vanilla' = {}
               /\ gen_run' = Tracked("gen_run",
                                     [last |-> IF gen_run.failed THEN "dirty"
                                               ELSE "clean",
                                      failed |-> FALSE],
                                     gen_run)
          ELSE /\ pc' = IF Pairs[j] \notin done_peer THEN "gen_peer_call"
                        ELSE "gen_vanilla_call"
               /\ idx' = j
               /\ UNCHANGED <<entry, api_key, global_rng, done_peer, done_vanilla, gen_run>>
    /\ UNCHANGED <<files, args, steps_to_run, step_idx, step_num, shutdown_requested,
                   judge, common_ids, done_ids, executed, failures, env, functions,
                   exit_status, completed, disk_at_start>>

\* the environment may make a generation call end with resp
GenResponse(resp) ==
    /\ resp \in env.gen_responses
    /\ resp # "ok" => failures < env.max_failures
    /\ failures' = IF resp # "ok" THEN failures + 1 ELSE failures
    /\ gen_run' = Tracked("gen_run", [gen_run EXCEPT !.failed = @ \/ resp # "ok"],
                          gen_run)

\* client.generate for the peer condition has ended: the record is written and flushed
GenPeerReturn(resp) ==
    /\ pc = "gen_peer_call"
    /\ GenResponse(resp)
    /\ reviews_peer' = Append(reviews_peer, gen_result(Pairs[idx], "peer", resp))
    /\ IF Pairs[idx] \notin done_vanilla
       THEN pc' = "gen_vanilla_call" /\ idx' = idx
       ELSE pc' = "gen_loop" /\ idx' = idx + 1
    /\ UNCHANGED <<checkpoint, reviews_vanilla, judgments, judgments_exist, entry, api_key, args,
                   steps_to_run, step_idx, step_num, shutdown_requested, global_rng,
                   judge, done_peer, done_vanilla, common_ids, done_ids, executed,
                   env, functions, exit_status, completed, disk_at_start>>

\* client.generate for the vanilla condition has ended: the record is written and flushed
GenVanillaReturn(resp) ==
    /\ pc = "gen_vanilla_call"
    /\ GenResponse(resp)
    /\ reviews_vanilla' = Append(reviews_vanilla, gen_result(Pairs[idx], "vanilla", resp))
    /\ pc' = "gen_loop"
    /\ idx' = idx + 1
    /\ UNCHANGED <<checkpoint, reviews_peer, judgments, judgments_exist, entry, api_key, args,
                   steps_to_run, step_idx, step_num, shutdown_requested, global_rng,
                   judge, done_peer, done_vanilla, common_ids, done_ids, executed,
                   env, functions, exit_status, completed, disk_at_start>>

\* step_1_generate_reviews after gen_main(): save_checkpoint(1, "reviews_generated")
Step1End ==
    /\ pc = "step_1_end"
    /\ checkpoint' = save_checkpoint(1, "reviews_generated", 0, 0)
    /\ Return(1)
    /\ pc' = "main_loop"
    /\ UNCHANGED <<reviews_peer, reviews_vanilla, judgments, judgments_exist, entry, api_key, args,
                   steps_to_run, step_idx, step_num, shutdown_requested, global_rng,
                   judge, done_peer, done_vanilla, common_ids, done_ids, idx, executed,
                   failures, env, functions, exit_status, gen_run, disk_at_start>>

(* ------------------------------------------------------------------ *)
(* Steps 2 and 3: the judge stages and judge_pairwise_ab.main          *)
(* ------------------------------------------------------------------ *)

\* fault: the two output paths are exchanged
out_path_swapped(j) == IF j = 1 THEN 2 ELSE 1

\* out_path of judge_pairwise_ab.main for --judge j: the judgments file written
out_path(j) == IF j = 1 THEN 1 ELSE 2

\* judge_main() up to the paper loop for --judge j, called by the step function k
JudgeBegin(k, j) ==
    /\ Enter(k)
    /\ judge' = j
    /\ global_rng' = rng_seeded(RANDOM_SEED)
    /\ common_ids' = judge_common_ids
    /\ done_ids' = judge_load_existing_ids(judgments[out_path(j)])
    /\ judgments' = [judgments EXCEPT ![out_path(j)] = opened(@, open_mode(done_ids'))]
    /\ judgments_exist' = [judgments_exist EXCEPT ![out_path(j)] = TRUE]
    /\ idx' = 1
    /\ pc' = "judge_loop"
    /\ UNCHANGED <<checkpoint, reviews_peer, reviews_vanilla, done_peer, done_vanilla,
                   failures, env, functions, history>>

\* step_2_judge_primary: sys.argv = ["judge", "--judge", "1"]; judge_main()
Step2Judge ==
    /\ Dispatch("step_2_judge_primary")
    /\ JudgeBegin(2, 1)

\* step_3_judge_secondary: sys.argv = ["judge", "--judge", "2"]; judge_mod.main()
Step3Judge ==
    /\ Dispatch("step_3_judge_secondary")
    /\ JudgeBegin(3, 2)

\* judge_main() raises before it opens its log (load_prompt: the prompt file is missing)
JudgeRaises ==
    /\ Dispatch("step_2_judge_primary") \/ Dispatch("step_3_judge_secondary")
    /\ \E m \in MsgLens : StageRaised(steps_to_run[step_idx + 1], m)

\* top of the paper loop: judged papers are skipped, the next call is issued, or
\* the loop ends and judge_main returns
JudgeLoopStep ==
    /\ pc = "judge_loop"
    /\ LET j == judge_next_idx(idx)
       IN IF j > Len(common_ids)
          THEN /\ pc' = "judge_end"
               /\ idx' = 0
               /\ common_ids' = <<>>
               /\ done_ids' = {}
               /\ call' = Tracked("prompt", NoCall, call)
          ELSE /\ pc' = "judge_call"
               /\ idx' = j
               /\ call' = Tracked("prompt",
                                  prompt_reviews(common_ids[j],
                                                 review_row(reviews_peer, common_ids[j]),
                                                 review_row(reviews_vanilla, common_ids[j])),
                                  call)
               /\ UNCHANGED <<common_ids, done_ids>>
    /\ UNCHANGED <<files, entry, api_key, args, steps_to_run, step_idx, step_num,
                   shutdown_requested, global_rng, judge, done_peer, done_vanilla,
                   executed, failures, env, client, requests, history>>

\* client.generate of the judge has ended with a response the loop turns into a
\* record: the record, with the slots drawn for the paper, is written and flushed
JudgeReturn(resp) ==
    /\ pc = "judge_call"
    /\ resp \in env.judge_responses \ {"nonobject"}
    /\ LET assignment == blind_assignment(common_ids[idx], global_rng)
       IN /\ judgments' = [judgments EXCEPT
                              ![out_path(judge)] =
                                  Append(@, judge_result(common_ids[idx], assignment, resp))]
          /\ global_rng' = assignment.global_rng
    /\ idx' = idx + 1
    /\ pc' = "judge_loop"
    /\ UNCHANGED <<checkpoint, reviews_peer, reviews_vanilla, judgments_exist, entry, api_key, args,
                   steps_to_run, step_idx, step_num, shutdown_requested, judge,
                   done_peer, done_vanilla, common_ids, done_ids, executed, failures,
                   env, functions, history>>

\* the response is valid JSON but no object: parsed.get raises AttributeError,
\* outside the try block, and the exception leaves judge_main
JudgeReturnRaises ==
    /\ pc = "judge_call"
    /\ "nonobject" \in env.judge_responses
    /\ StageRaised(step_num, 40)

\* the step function after judge_main(): save_checkpoint(2, ...) or (3, ...)
JudgeEnd ==
    /\ pc = "judge_end"
    /\ LET k == IF judge = 1 THEN 2 ELSE 3
       IN /\ checkpoint' = save_checkpoint(k, IF judge = 1 THEN "judge1_complete"
                                              ELSE "judge2_complete", 0, 0)
          /\ Return(k)
    /\ judge' = 0
    /\ pc' = "main_loop"
    /\ UNCHANGED <<reviews_peer, reviews_vanilla, judgments, judgments_exist, entry, api_key, args,
                   steps_to_run, step_idx, step_num, shutdown_requested, global_rng,
                   done_peer, done_vanilla, common_ids, done_ids, idx, executed,
                   failures, env, functions, exit_status, gen_run, disk_at_start>>

(* ------------------------------------------------------------------ *)
(* Step 4: step_4_summarize_and_stats                                  *)
(* ------------------------------------------------------------------ *)

\* sum_main() and stat_main() return: save_checkpoint(4, "experiment_complete")
Step4Summarize ==
    /\ Dispatch("step_4_summarize_and_stats")
    /\ ~stage4_raises
    /\ Enter(4)
    /\ checkpoint' = save_checkpoint(4, "experiment_complete", 0, 0)
    /\ Return(4)
    /\ UNCHANGED <<reviews_peer, reviews_vanilla, judgments, judgments_exist, pc,
                   global_rng, judge, done_peer, done_vanilla, common_ids, done_ids,
                   idx, failures, env, functions, exit_status, gen_run, disk_at_start>>

\* sum_main() raises AttributeError on a winner that is not a string
Step4Raises ==
    /\ Dispatch("step_4_summarize_and_stats")
    /\ stage4_raises
    /\ StageRaised(steps_to_run[step_idx + 1], 40)

(* ------------------------------------------------------------------ *)
(* Signals                                                             *)
(* ------------------------------------------------------------------ *)

\* _signal_handler, first SIGINT: the flag is set
SigintFirst ==
    /\ entry = "run_experiment"
    /\ ~shutdown_requested
    /\ shutdown_requested' = TRUE
    /\ UNCHANGED <<files, pc, entry, api_key, args, steps_to_run, step_idx, step_num, global_rng,
                   judge, done_peer, done_vanilla, common_ids, done_ids, idx,
                   executed, failures, env, functions, history>>

\* _signal_handler, second SIGINT: sys.exit(1); SystemExit passes every
\* except Exception and ends the process
SigintSecond ==
    /\ entry = "run_experiment"
    /\ shutdown_requested
    /\ EndProcess("force_quit")
    /\ UNCHANGED <<files, failures, env, functions, completed>>

\* the process is killed (SIGKILL, power loss, or SIGINT in a script that
\* installs no handler): what was flushed stays on disk
Kill ==
    /\ Running
    /\ EndProcess("killed")
    /\ UNCHANGED <<files, failures, env, functions, completed>>

(* ------------------------------------------------------------------ *)
(* LLMClient.generate                                                  *)
(* ------------------------------------------------------------------ *)

\* the characters of a text: a blank and a character that is not blank
Chars == {" ", "x"}

\* the texts a 200 response may carry in choices[0].message.content
Contents == UNION {[1..n -> Chars] : n \in 0..MaxContentLen}

\* str.lstrip()
RECURSIVE lstrip(_)
lstrip(s) == IF s # <<>> /\ Head(s) = " " THEN lstrip(Tail(s)) ELSE s

\* str.rstrip()
RECURSIVE rstrip(_)
rstrip(s) == IF s # <<>> /\ s[Len(s)] = " " THEN rstrip(SubSeq(s, 1, Len(s) - 1)) ELSE s

\* str.strip()
strip(s) == rstrip(lstrip(s))

\* the HTTP statuses a response may carry
Statuses == {200, 201, 400, 401} \cup RETRYABLE_STATUS_CODES

\* what one requests.post of generate may meet: a response, a timeout, a
\* connection error, a 200 response whose body has no choices[0].message.content,
\* or another exception of requests
Outcomes ==
    {[kind |-> "response", status |-> 200, content |-> c] : c \in Contents}
    \cup {[kind |-> "response", status |-> s, content |-> <<>>] : s \in Statuses \ {200}}
    \cup {[kind |-> k, status |-> 0, content |-> <<>>] :
            k \in {"Timeout", "ConnectionError", "KeyError", "RequestException"}}

\* an exception: its kind and the status its message quotes (0 when none)
Error(kind, status) == [error |-> kind, status |-> status]

\* last_error = None
None == Error("None", 0)

\* no generate call in progress
NoClient == [pc |-> "idle", attempt |-> 0, last_error |-> None, content |-> <<>>,
             raised |-> None]

\* fault: the status is not looked up, every status other than 200 is retried
is_retryable_any(status) == TRUE

\* response.status_code in RETRYABLE_STATUS_CODES
is_retryable(status) == status \in RETRYABLE_STATUS_CODES

\* fault: the loop runs one attempt more
attempts_remain_one_more(attempt) == attempt < MAX_RETRIES + 1

\* for attempt in range(1, MAX_RETRIES + 1): whether an attempt follows attempt
attempts_remain(attempt) == attempt < MAX_RETRIES

\* fault: the content is returned as received
response_content_raw(text) == text

\* data["choices"][0]["message"]["content"].strip()
response_content(text) == strip(text)

\* return content
generate_return(c, content) == [c EXCEPT !.pc = "returned", !.content = content]

\* raise: the exception leaves generate
generate_raise(c, e) == [c EXCEPT !.pc = "raised", !.raised = e]

\* last_error = e; time.sleep(delay); continue, and after the last attempt
\* raise last_error or RuntimeError("Failed after ... retries.")
generate_continue(c, e) ==
    IF attempts_remain(c.attempt)
    THEN [c EXCEPT !.attempt = @ + 1, !.last_error = e]
    ELSE generate_raise([c EXCEPT !.last_error = e],
                        IF e # None THEN e ELSE Error("Failed after retries", 0))

\* one iteration of the for loop of generate, for what its request met
generate_attempt(c, o) ==
    IF o.kind = "response"
    THEN IF o.status = 200
         THEN LET content == response_content(o.content)
              IN IF content = <<>>
                 THEN generate_raise(c, Error("Empty response from model.", 0))
                 ELSE generate_return(c, content)
         ELSE IF is_retryable(o.status)
         THEN generate_continue(c, Error("HTTP", o.status))
         ELSE generate_raise(c, Error("OpenRouter error HTTP", o.status))
    ELSE IF o.kind = "Timeout"
    THEN generate_continue(c, Error("Request timed out after 180s", 0))
    ELSE IF o.kind = "ConnectionError"
    THEN generate_continue(c, Error("Connection error", 0))
    ELSE generate_raise(c, Error(o.kind, 0))

\* client.generate(...) is called: last_error = None, the loop starts
GenerateBegin ==
    /\ client.pc # "request"
    /\ client' = [NoClient EXCEPT !.pc = "request", !.attempt = 1]
    /\ requests' = <<>>
    /\ UNCHANGED <<files, process, failures, env, call, history>>

\* one request of the loop is issued and meets o
GenerateRequest(o) ==
    /\ client.pc = "request"
    /\ client' = generate_attempt(client, o)
    /\ requests' = Append(requests, o)
    /\ UNCHANGED <<files, process, failures, env, call, history>>

(* ------------------------------------------------------------------ *)
(* statistical_tests                                                   *)
(* ------------------------------------------------------------------ *)

\* a float is kept as a whole number of units of 1/SCALE: every division and
\* square root rounds to a unit, as float arithmetic rounds to its precision
SCALE == 2^14

\* the result of a function that has not been applied yet, has returned v, has
\* raised the exception e
Pending == [state |-> "pending", value |-> <<>>]
Returned(v) == [state |-> "returned", value |-> v]
Raised(e) == [state |-> "raised", value |-> e]

\* str.lower()
lower(s) ==
    [i \in 1..Len(s) |->
        CASE s[i] = "A" -> "a" [] s[i] = "B" -> "b" [] s[i] = "T" -> "t"
          [] s[i] = "I" -> "i" [] s[i] = "E" -> "e" [] OTHER -> s[i]]

\* the values the winner of a judgment record may hold: a string (one of a
\* few words, in either case, with blanks around it), null or no key at all,
\* an integer
WinnerValues ==
    LET words == {<<>>, <<"a">>, <<"A">>, <<"b">>, <<"B">>, <<"t", "i", "e">>,
                  <<"T", "I", "E">>, <<"T", "i", "e">>, <<"x">>, <<"a", "b">>,
                  <<"a", " ", "b">>, <<"t", "i">>}
        blanks == {[i \in 1..n |-> " "] : n \in 0..MaxWinnerPad}
    IN {[type |-> "str", text |-> l \o w \o r, value |-> 0] :
            l \in blanks, w \in words, r \in blanks}
       \cup {[type |-> "null", text |-> <<>>, value |-> 0]}
       \cup {[type |-> "int", text |-> <<>>, value |-> v] : v \in {0, 1}}

\* resolve_winner(row)
resolve_winner(row) ==
    LET falsy == \/ row.winner.type = "null"
                 \/ row.winner.type = "str" /\ row.winner.text = <<>>
                 \/ row.winner.type = "int" /\ row.winner.value = 0
        value == IF falsy THEN [type |-> "str", text |-> <<>>, value |-> 0]
                 ELSE row.winner
    IN IF value.type # "str" THEN Raised("AttributeError")
       ELSE LET winner == strip(lower(value.text))
            IN IF winner = <<"t", "i", "e">> THEN Returned("tie")
               ELSE IF winner = <<"a">> THEN Returned(row.cond_A)
               ELSE IF winner = <<"b">> THEN Returned(row.cond_B)
               ELSE Returned("tie")

\* math.exp(math.lgamma(n + 1)), for a whole number n
RECURSIVE factorial(_)
factorial(n) == IF n <= 1 THEN 1 ELSE n * factorial(n - 1)

\* the rounding errors the platform may make in math.exp(log_prob), in units,
\* for the terms 0..n: none, the same for every term, or one term off
Roundings(n) ==
    {[i \in 0..n |-> e] : e \in {-1, 0, 1}}
    \cup {[i \in 0..n |-> IF i = j THEN e ELSE 0] : j \in 0..n, e \in {-1, 1}}

\* math.exp(_log_comb(n, i) + i * math.log(p) + (n - i) * math.log(1 - p)) for
\* p = p0.num / p0.den, as the platform rounds it
exp_log_prob(n, i, p0, rounding) ==
    LET comb == factorial(n) \div (factorial(i) * factorial(n - i))
    IN (comb * (p0.num ^ i) * ((p0.den - p0.num) ^ (n - i)) * SCALE) \div (p0.den ^ n)
       + rounding[i]

\* total of _binomial_cdf after the terms 0..k
RECURSIVE binomial_total(_, _, _, _)
binomial_total(k, n, p0, rounding) ==
    IF k < 0 THEN 0
    ELSE binomial_total(k - 1, n, p0, rounding) + exp_log_prob(n, k, p0, rounding)

\* _binomial_cdf(k, n, p)
binomial_cdf(k, n, p0, rounding) ==
    IF k < 0 THEN 0
    ELSE IF k >= n THEN SCALE
    ELSE Min(binomial_total(k, n, p0, rounding), SCALE)

\* fault: the upper tail leaves out successes itself
upper_tail_after(successes) == successes

\* the argument of _binomial_cdf for the upper tail
upper_tail_from(successes) == successes - 1

\* fault: the smaller tail is not doubled
binomial_test_one_sided(successes, trials, p0, rounding) ==
    IF trials = 0 THEN SCALE
    ELSE LET p_upper == SCALE - binomial_cdf(upper_tail_from(successes), trials, p0, rounding)
             p_lower == binomial_cdf(successes, trials, p0, rounding)
         IN Min(Min(p_upper, p_lower), SCALE)

\* binomial_test_two_sided(successes, trials, p0)
binomial_test_two_sided(successes, trials, p0, rounding) ==
    IF trials = 0 THEN SCALE
    ELSE LET p_upper == SCALE - binomial_cdf(upper_tail_from(successes), trials, p0, rounding)
             p_lower == binomial_cdf(successes, trials, p0, rounding)
         IN Min(2 * Min(p_upper, p_lower), SCALE)

\* math.sqrt(x) for a whole number x: the largest r in lo..hi with r * r <= x
RECURSIVE isqrt(_, _, _)
isqrt(x, lo, hi) ==
    IF lo >= hi THEN lo
    ELSE LET mid == (lo + hi + 1) \div 2
         IN IF mid * mid <= x THEN isqrt(x, mid, hi) ELSE isqrt(x, lo, mid - 1)

\* wilson_ci(successes, trials), with z = 1.96
wilson_ci(successes, trials) ==
    IF trials = 0 THEN <<0, SCALE>>
    ELSE LET z == (196 * SCALE) \div 100
             z2 == (z * z) \div SCALE
             p_hat == (successes * SCALE) \div trials
             denom == SCALE + z2 \div trials
             center == ((p_hat + z2 \div (2 * trials)) * SCALE) \div denom
             inner == ((p_hat * (SCALE - p_hat)) \div SCALE + z2 \div (4 * trials))
                        \div trials
             root == isqrt(inner * SCALE, 0, 2 * SCALE)
             spread == (((z * root) \div SCALE) * SCALE) \div denom
         IN <<IF center - spread > 0 THEN center - spread ELSE 0,
              Min(SCALE, center + spread)>>

\* Counter(outcomes).get(label, 0)
counts_get(outcomes, label) ==
    Cardinality({i \in 1..Len(outcomes) : outcomes[i] = label})

\* fault: the ties are counted among the trials
trials_with_ties(peer_wins, vanilla_wins, ties) == peer_wins + vanilla_wins + ties

\* non_tie of analyze_single_judge
non_tie(peer_wins, vanilla_wins, ties) == peer_wins + vanilla_wins

\* analyze_single_judge(outcomes, judge_name): the counts, the p-value, the
\* flag and the interval of the dict it returns
analyze_single_judge(outcomes, rounding) ==
    LET peer_wins == counts_get(outcomes, "peer")
        vanilla_wins == counts_get(outcomes, "vanilla")
        ties == counts_get(outcomes, "tie")
        n == non_tie(peer_wins, vanilla_wins, ties)
        p_val == IF n > 0
                 THEN binomial_test_two_sided(peer_wins, n, [num |-> 1, den |-> 2],
                                              rounding)
                 ELSE SCALE
        ci == IF n > 0 THEN wilson_ci(peer_wins, n) ELSE <<0, SCALE>>
        peer_rate == IF n > 0 THEN (peer_wins * SCALE) \div n ELSE SCALE \div 2
    IN [total_examples |-> Len(outcomes), peer_wins |-> peer_wins,
        vanilla_wins |-> vanilla_wins, ties |-> ties,
        peer_win_rate_non_tie |-> peer_rate, binomial_p_value |-> p_val,
        significant_at_005 |-> (20 * p_val < SCALE),
        ci_95_lower |-> ci[1], ci_95_upper |-> ci[2]]

\* load_outcomes(path), for the rows of the log: the outcomes, or the
\* exception of the first row resolve_winner raises on
load_outcomes(rows) ==
    IF \E i \in 1..Len(rows) : resolve_winner(rows[i]).state = "raised"
    THEN Raised("AttributeError")
    ELSE Returned([i \in 1..Len(rows) |-> resolve_winner(rows[i]).value])

\* summarize_judgments, the body of the loop for one row: the counter the row
\* adds to, "none" when it adds to no counter
summarized_as(row) ==
    LET falsy == \/ row.winner.type = "null"
                 \/ row.winner.type = "str" /\ row.winner.text = <<>>
                 \/ row.winner.type = "int" /\ row.winner.value = 0
        value == IF falsy THEN [type |-> "str", text |-> <<>>, value |-> 0]
                 ELSE row.winner
    IN IF value.type # "str" THEN "AttributeError"
       ELSE LET winner == strip(lower(value.text))
            IN IF winner = <<"t", "i", "e">> THEN "ties"
               ELSE IF winner = <<"a">>
                    THEN IF row.cond_A = "peer" THEN "peer_wins"
                         ELSE IF row.cond_A = "vanilla" THEN "vanilla_wins" ELSE "none"
               ELSE IF winner = <<"b">>
                    THEN IF row.cond_B = "peer" THEN "peer_wins"
                         ELSE IF row.cond_B = "vanilla" THEN "vanilla_wins" ELSE "none"
               ELSE "none"

\* summarize_judgments(in_path, judge_label, judge_model), for the rows of the
\* log: the counts and the rate over the non-tie examples of summary
summarize_judgments(rows) ==
    IF \E i \in 1..Len(rows) : summarized_as(rows[i]) = "AttributeError"
    THEN Raised("AttributeError")
    ELSE LET count(counter) ==
                 Cardinality({i \in 1..Len(rows) : summarized_as(rows[i]) = counter})
             total == Len(rows)
             non_ties == IF total - count("ties") >= 1 THEN total - count("ties") ELSE 1
         IN Returned([num_examples |-> total, peer_wins |-> count("peer_wins"),
                      vanilla_wins |-> count("vanilla_wins"), ties |-> count("ties"),
                      peer_win_rate_non_tie |-> (count("peer_wins") * SCALE) \div non_ties])

\* the rows of judgment logs that are followed: a verdict for either slot, a
\* tie, words that are no verdict, no winner, a number, under either assignment
JudgmentRows ==
    {[winner |-> w, cond_A |-> a, cond_B |-> IF a = "peer" THEN "vanilla" ELSE "peer"] :
        w \in {[type |-> "str", text |-> t, value |-> 0] :
                  t \in {<<"a">>, <<"B">>, <<"T", "i", "e">>, <<"a", "b">>, <<>>}}
              \cup {[type |-> "null", text |-> <<>>, value |-> 0],
                    [type |-> "int", text |-> <<>>, value |-> 1]},
        a \in {"peer", "vanilla"}}

\* the lists of at most n outcomes
OutcomeLists(n) ==
    UNION {[1..m -> {"peer", "vanilla", "tie"}] : m \in 0..n}

\* fault: the last position is left out of the count
kappa_agree_short(outcomes_1, outcomes_2) ==
    Cardinality({i \in 1..(Min(Len(outcomes_1), Len(outcomes_2)) - 1) :
                    outcomes_1[i] = outcomes_2[i]})

\* cohens_kappa: agree, the positions zip pairs up that hold the same label
kappa_agree(outcomes_1, outcomes_2) ==
    Cardinality({i \in 1..Min(Len(outcomes_1), Len(outcomes_2)) :
                    outcomes_1[i] = outcomes_2[i]})

\* cohens_kappa: p_o, for n = len(outcomes_1)
kappa_p_o(outcomes_1, outcomes_2) ==
    (kappa_agree(outcomes_1, outcomes_2) * SCALE) \div Len(outcomes_1)

\* cohens_kappa: categories
kappa_categories(outcomes_1, outcomes_2) ==
    {outcomes_1[i] : i \in 1..Len(outcomes_1)}
    \cup {outcomes_2[i] : i \in 1..Len(outcomes_2)}

\* fault: the frequency of the first judge is multiplied with itself
marginal_product_first(f1, f2) == (f1 * f1) \div SCALE

\* cohens_kappa: f1 * f2
marginal_product(f1, f2) == (f1 * f2) \div SCALE

\* cohens_kappa: p_e after the categories cats
RECURSIVE kappa_p_e(_, _, _)
kappa_p_e(outcomes_1, outcomes_2, cats) ==
    IF cats = {} THEN 0
    ELSE LET cat == CHOOSE c \in cats : TRUE
             n == Len(outcomes_1)
             f1 == (counts_get(outcomes_1, cat) * SCALE) \div n
             f2 == (counts_get(outcomes_2, cat) * SCALE) \div n
         IN kappa_p_e(outcomes_1, outcomes_2, cats \ {cat}) + marginal_product(f1, f2)

\* fault: the difference is not divided by 1 - p_e
cohens_kappa_difference(outcomes_1, outcomes_2) ==
    IF Len(outcomes_1) = 0 THEN 0
    ELSE LET p_o == kappa_p_o(outcomes_1, outcomes_2)
             p_e == kappa_p_e(outcomes_1, outcomes_2,
                              kappa_categories(outcomes_1, outcomes_2))
         IN IF p_e >= SCALE THEN SCALE ELSE p_o - p_e

\* cohens_kappa(outcomes_1, outcomes_2)
cohens_kappa(outcomes_1, outcomes_2) ==
    IF Len(outcomes_1) = 0 THEN 0
    ELSE LET p_o == kappa_p_o(outcomes_1, outcomes_2)
             p_e == kappa_p_e(outcomes_1, outcomes_2,
                              kappa_categories(outcomes_1, outcomes_2))
         IN IF p_e >= SCALE THEN SCALE
            ELSE ((p_o - p_e) * SCALE) \div (SCALE - p_e)

\* outcome lists of two judges beyond the short ones: lists with a label
\* that is none of peer, vanilla, tie, and lists of 7 outcomes
LongOutcomePairs ==
    {<<l, l>> : l \in {<<"win", "lose">>, <<"win", "win", "win", "win">>,
                       <<"peer", "peer", "peer", "vanilla", "tie", "tie", "win">>}}
    \cup {<<(<<"peer", "peer", "peer", "peer", "vanilla", "vanilla", "vanilla">>),
            (<<"peer", "peer", "vanilla", "vanilla", "peer", "vanilla", "tie">>)>>,
          <<(<<"peer", "peer", "tie", "vanilla">>),
            (<<"peer", "vanilla", "tie", "vanilla">>)>>,
          <<(<<"peer", "vanilla", "peer", "vanilla">>),
            (<<"vanilla", "peer", "vanilla", "peer">>)>>}

\* the applications of the functions of statistical_tests that are followed
StatCalls ==
    {[fn |-> "resolve_winner",
      args |-> [winner |-> w, cond_A |-> a, cond_B |-> IF a = "peer" THEN "vanilla" ELSE "peer"],
      result |-> Pending] : w \in WinnerValues, a \in {"peer", "vanilla"}}
    \cup UNION {{[fn |-> "binomial_test_two_sided",
                  args |-> [successes |-> k, trials |-> n, p0 |-> [num |-> 1, den |-> 2],
                            rounding |-> r],
                  result |-> Pending] : k \in 0..n, r \in Roundings(n)} : n \in 0..MaxTrials}
    \cup UNION {{[fn |-> "analyze_single_judge",
                  args |-> [outcomes |-> IF first = "tie"
                                         THEN [i \in 1..t |-> "tie"]
                                              \o [i \in 1..p |-> "peer"]
                                              \o [i \in 1..v |-> "vanilla"]
                                         ELSE [i \in 1..v |-> "vanilla"]
                                              \o [i \in 1..p |-> "peer"]
                                              \o [i \in 1..t |-> "tie"],
                            rounding |-> r],
                  result |-> Pending] : first \in {"tie", "vanilla"}, r \in Roundings(p + v)} :
               p \in {0, MaxWins - 1, MaxWins}, v \in {0, 1}, t \in 0..MaxTies}
    \cup UNION {{[fn |-> "wilson_ci", args |-> [successes |-> k, trials |-> n],
                  result |-> Pending] : k \in 0..n} : n \in 0..MaxWins}
    \cup {[fn |-> "step_4_summarize_and_stats", args |-> [rows |-> rows],
            result |-> Pending] :
              rows \in UNION {[1..m -> JudgmentRows] : m \in 0..MaxTies}}
    \cup {[fn |-> "cohens_kappa", args |-> [outcomes_1 |-> l[1], outcomes_2 |-> l[2]],
            result |-> Pending] :
              l \in (OutcomeLists(MaxOutcomes) \X OutcomeLists(MaxOutcomes))
                       \cup LongOutcomePairs}

\* resolve_winner is applied to the row
ResolveWinner ==
    /\ call.fn = "resolve_winner"
    /\ call.result = Pending
    /\ call' = [call EXCEPT !.result = resolve_winner(call.args)]
    /\ UNCHANGED <<files, process, failures, env, client, requests, history>>

\* binomial_test_two_sided is applied to its arguments
BinomialTest ==
    /\ call.fn = "binomial_test_two_sided"
    /\ call.result = Pending
    /\ call' = [call EXCEPT !.result =
                   Returned(binomial_test_two_sided(call.args.successes, call.args.trials,
                                                    call.args.p0, call.args.rounding))]
    /\ UNCHANGED <<files, process, failures, env, client, requests, history>>

\* wilson_ci is applied to its arguments
WilsonCi ==
    /\ call.fn = "wilson_ci"
    /\ call.result = Pending
    /\ call' = [call EXCEPT !.result =
                   Returned(wilson_ci(call.args.successes, call.args.trials))]
    /\ UNCHANGED <<files, process, failures, env, client, requests, history>>

\* cohens_kappa is applied to the outcome lists of the two judges
CohensKappa ==
    /\ call.fn = "cohens_kappa"
    /\ call.result = Pending
    /\ call' = [call EXCEPT !.result =
                   Returned(cohens_kappa(call.args.outcomes_1, call.args.outcomes_2))]
    /\ UNCHANGED <<files, process, failures, env, client, requests, history>>

\* step_4_summarize_and_stats for one judge log: summarize_judgments, then
\* load_outcomes and analyze_single_judge, are applied to its rows
SummarizeAndStats ==
    /\ call.fn = "step_4_summarize_and_stats"
    /\ call.result = Pending
    /\ LET summary == summarize_judgments(call.args.rows)
           outcomes == load_outcomes(call.args.rows)
       IN call' = [call EXCEPT !.result =
                      IF summary.state = "raised" THEN summary
                      ELSE IF outcomes.state = "raised" THEN outcomes
                      ELSE Returned([summary |-> summary.value,
                                     stats |-> analyze_single_judge(
                                                  outcomes.value,
                                                  [i \in 0..Len(outcomes.value) |-> 0])])]
    /\ UNCHANGED <<files, process, failures, env, client, requests, history>>

\* analyze_single_judge is applied to the outcomes of a judge log
AnalyzeSingleJudge ==
    /\ call.fn = "analyze_single_judge"
    /\ call.result = Pending
    /\ call' = [call EXCEPT !.result =
                   Returned(analyze_single_judge(call.args.outcomes, call.args.rounding))]
    /\ UNCHANGED <<files, process, failures, env, client, requests, history>>

(* ------------------------------------------------------------------ *)
(* Specifications                                                      *)
(* ------------------------------------------------------------------ *)

\* the state before the first run, for the inputs e, with the application c of
\* a function of statistical_tests about to be made
InitOf(e, c) ==
    /\ env = e
    /\ client = NoClient
    /\ requests = <<>>
    /\ call = c
    /\ checkpoint = NoCheckpoint
    /\ reviews_peer = <<>>
    /\ reviews_vanilla = <<>>
    /\ judgments = [j \in {1, 2} |-> <<>>]
    /\ judgments_exist = [j \in {1, 2} |-> FALSE]
    /\ pc = "idle"
    /\ entry = "none"
    /\ api_key = FALSE
    /\ args = NoArgs
    /\ steps_to_run = <<>>
    /\ step_idx = 0
    /\ step_num = 0
    /\ shutdown_requested = FALSE
    /\ global_rng = 0
    /\ judge = 0
    /\ done_peer = {}
    /\ done_vanilla = {}
    /\ common_ids = <<>>
    /\ done_ids = {}
    /\ idx = 0
    /\ executed = <<>>
    /\ failures = 0
    /\ exit_status = [kind |-> "none", after |-> 0]
    /\ completed = {}
    /\ gen_run = [last |-> "none", failed |-> FALSE]
    /\ disk_at_start = 0

\* the state before the first run, for the inputs e
InitWith(e) == InitOf(e, NoCall)

Next ==
    \/ RunStatus
    \/ RunNoKey
    \/ RunAlreadyComplete
    \/ RunBegin
    \/ LoopDone
    \/ LoopShutdown
    \/ Step1Skip
    \/ Step1Generate
    \/ Step1Raises
    \/ GenLoopStep
    \/ \E resp \in {"ok", "invalid", "error"} : GenPeerReturn(resp)
    \/ \E resp \in {"ok", "invalid", "error"} : GenVanillaReturn(resp)
    \/ Step1End
    \/ Step2Judge
    \/ Step3Judge
    \/ JudgeRaises
    \/ JudgeLoopStep
    \/ \E resp \in {"A", "B", "tie", "number", "error"} : JudgeReturn(resp)
    \/ JudgeReturnRaises
    \/ JudgeEnd
    \/ Step4Summarize
    \/ Step4Raises
    \/ SigintFirst
    \/ SigintSecond
    \/ Kill

\* the runner: every command line, every way a stage can end, no failing
\* generation call; the history of how a run began and ended is followed
RunnerEnv ==
    [pairs |-> [i \in 1..RunnerPapers |-> i], max_failures |-> 0,
     arg_space |-> AllArgs, gen_responses |-> {"ok"},
     judge_responses |-> {"A", "number", "nonobject"},
     unseeded |-> {1}, track |-> {"exit", "start"}]

Init == InitWith(RunnerEnv)

Spec == Init /\ [][Next]_vars

\* the runner, with the history of the stages that have returned
CompletedEnv ==
    [RunnerEnv EXCEPT !.arg_space = SingleArgs, !.track = {"completed"}]

InitCompleted == InitWith(CompletedEnv)

SpecCompleted == InitCompleted /\ [][Next]_vars

\* the stages under the runner: several input pairs, auto-resume runs, every
\* judge response, any state of the global random generator at start
StagesEnv ==
    [pairs |-> [i \in 1..NumPapers |-> i], max_failures |-> 0,
     arg_space |-> {NoArgs}, gen_responses |-> {"ok"},
     judge_responses |-> {"A", "tie", "number", "error", "nonobject"},
     unseeded |-> {1, 6}, track |-> {}]

InitStages == InitWith(StagesEnv)

SpecStages == InitStages /\ [][Next]_vars

\* the generation stage: several input pairs, failing and invalid responses,
\* started by the runner (--step 1) and as a script of its own
GenEnv ==
    [pairs |-> [i \in 1..NumPapers |-> i], max_failures |-> MaxFailures,
     arg_space |-> {[from_step |-> <<>>, step |-> <<1>>]},
     gen_responses |-> {"ok", "invalid", "error"},
     judge_responses |-> {}, unseeded |-> {1}, track |-> {"gen_run"}]

InitGen == InitWith(GenEnv)

NextGen ==
    \/ RunBegin
    \/ Step1Skip
    \/ Step1Generate
    \/ Step1Raises
    \/ Script02Begin
    \/ GenLoopStep
    \/ \E resp \in {"ok", "invalid", "error"} : GenPeerReturn(resp)
    \/ \E resp \in {"ok", "invalid", "error"} : GenVanillaReturn(resp)
    \/ Step1End
    \/ LoopDone
    \/ LoopShutdown
    \/ SigintFirst
    \/ SigintSecond
    \/ Kill

SpecGen == InitGen /\ [][NextGen]_vars

\* resuming after failures: one input pair by default, failing generation
\* calls, failing judge calls, auto-resume runs only
ResumeEnv ==
    [pairs |-> [i \in 1..RunnerPapers |-> i], max_failures |-> MaxFailures,
     arg_space |-> {NoArgs}, gen_responses |-> {"ok", "invalid", "error"},
     judge_responses |-> {"A", "error", "number", "nonobject"},
     unseeded |-> {1}, track |-> {}]

InitResume == InitWith(ResumeEnv)

SpecResume == InitResume /\ [][Next]_vars

\* the orders pairs.jsonl may list its papers in (build_pairs writes them in the
\* order of the file names, which is not always the order of the ids)
PairOrders == {p \in [1..NumPapers -> 1..NumPapers] :
                 \A i, k \in 1..NumPapers : p[i] = p[k] => i = k}

\* the stages under the runner with pairs.jsonl in any order: auto-resume
\* runs, no failing generation call
OrderEnv(p) ==
    [pairs |-> p, max_failures |-> 0, arg_space |-> {NoArgs},
     gen_responses |-> {"ok"}, judge_responses |-> {"A", "number", "nonobject"},
     unseeded |-> {1}, track |-> {}]

InitOrder == \E p \in PairOrders : InitWith(OrderEnv(p))

SpecOrder == InitOrder /\ [][Next]_vars

\* the judge stages after generation runs that leave failed records: several
\* input pairs, auto-resume runs, failing judge calls; the prompt of the call
\* in flight is followed
JudgeEnv ==
    [pairs |-> [i \in 1..NumPapers |-> i], max_failures |-> MaxFailures,
     arg_space |-> {NoArgs}, gen_responses |-> {"ok", "error"},
     judge_responses |-> {"A", "error", "nonobject"},
     unseeded |-> {1}, track |-> {"prompt"}]

InitJudge == InitWith(JudgeEnv)

NextJudge ==
    \/ RunBegin
    \/ LoopDone
    \/ Step1Skip
    \/ Step1Generate
    \/ GenLoopStep
    \/ \E resp \in {"ok", "error"} : GenPeerReturn(resp)
    \/ \E resp \in {"ok", "error"} : GenVanillaReturn(resp)
    \/ Step1End
    \/ Step2Judge
    \/ Step3Judge
    \/ JudgeLoopStep
    \/ \E resp \in {"A", "error"} : JudgeReturn(resp)
    \/ JudgeReturnRaises
    \/ JudgeEnd
    \/ Step4Summarize
    \/ Kill

SpecJudge == InitJudge /\ [][NextJudge]_vars

\* auto-resume runs with the key set and no signal, every remote call
\* answered: by a review or a failure in the generation stage, by a verdict,
\* a failure, or JSON that is no verdict in the judge stages
InitLive ==
    InitWith([JudgeEnv EXCEPT !.judge_responses = {"A", "error", "number", "nonobject"},
                              !.track = {"start"}])

NextLive ==
    \/ RunBegin
    \/ RunAlreadyComplete
    \/ LoopDone
    \/ Step1Generate
    \/ GenLoopStep
    \/ \E resp \in {"ok", "error"} : GenPeerReturn(resp)
    \/ \E resp \in {"ok", "error"} : GenVanillaReturn(resp)
    \/ Step1End
    \/ Step2Judge
    \/ Step3Judge
    \/ JudgeLoopStep
    \/ \E resp \in {"A", "number", "error"} : JudgeReturn(resp)
    \/ JudgeReturnRaises
    \/ JudgeEnd
    \/ Step4Summarize
    \/ Step4Raises

\* every call in flight is answered and the process goes on while it can:
\* requests.post has a timeout and the loops have no other wait
SpecLive == InitLive /\ [][NextLive]_vars /\ WF_vars(NextLive)

\* calls of LLMClient.generate, one after the other, each request meeting any
\* of the outcomes
InitClient == InitWith(RunnerEnv)

NextClient ==
    \/ GenerateBegin
    \/ \E o \in Outcomes : GenerateRequest(o)

SpecClient == InitClient /\ [][NextClient]_vars

\* the same, every request issued ending: requests.post is given timeout=180
\* and time.sleep(delay) returns
SpecClientLive == SpecClient /\ WF_vars(\E o \in Outcomes : GenerateRequest(o))

\* the runner asked for its status or started without the key, between runs
\* that leave failed records: what --status reports and how a run without
\* the key ends are followed
StatusEnv ==
    [pairs |-> [i \in 1..RunnerPapers |-> i], max_failures |-> MaxFailures,
     arg_space |-> {NoArgs}, gen_responses |-> {"ok", "invalid", "error"},
     judge_responses |-> {"A", "number", "nonobject"},
     unseeded |-> {1}, track |-> {"status", "exit_code"}]

InitStatus == InitWith(StatusEnv)

SpecStatus == InitStatus /\ [][Next]_vars

\* the functions of statistical_tests, each applied to one of its inputs
InitStatistics == \E c \in StatCalls : InitOf(RunnerEnv, c)

NextStatistics ==
    \/ ResolveWinner
    \/ BinomialTest
    \/ AnalyzeSingleJudge
    \/ WilsonCi
    \/ CohensKappa
    \/ SummarizeAndStats

SpecStatistics == InitStatistics /\ [][NextStatistics]_vars

(* ------------------------------------------------------------------ *)
(* Properties                                                          *)
(* ------------------------------------------------------------------ *)

\* the ways a run is stopped from outside: the break on the shutdown flag, the
\* second SIGINT, a kill
Stops == {"cancelled", "force_quit", "killed"}

\* the step the loop is at: the one about to be called, or the one running
CurrentStep == IF pc = "main_loop" THEN steps_to_run[step_idx + 1] ELSE step_num

\* C1: when a run has been stopped between the return of stage 2 and the start
\* of the next stage, the checkpoint holds last_completed_step = 2, and a
\* following run given neither --from nor --step has steps 3 and 4 to run and
\* executes only those, in that order: stage 2 is not executed again.
C1_ResumeAfterStage2 ==
    (exit_status.kind \in Stops /\ exit_status.after = 2) =>
        /\ pc = "idle" => checkpoint.last_completed_step = 2
        /\ (entry = "run_experiment" /\ args = NoArgs) =>
              /\ steps_to_run = <<3, 4>>
              /\ executed = SubSeq(<<3, 4>>, 1, step_idx)

C1_Witness ==
    /\ exit_status = [kind |-> "cancelled", after |-> 2]
    /\ entry = "run_experiment"
    /\ args = NoArgs
    /\ pc = "main_loop"
    /\ executed = <<3, 4>>
    /\ checkpoint.last_completed_step = 4

\* the successful records of a generation log for one paper
ok_records(rows, p) == {i \in 1..Len(rows) : rows[i].paper_id = p /\ rows[i].error = "none"}

\* C2: once an execution of generate_reviews_dual.main has run to its end with
\* every call returning a valid review, each log holds exactly one successful
\* record per paper (and nothing else when no call has ever failed), and an
\* execution that follows issues no remote call.
C2_SecondRunIdle ==
    gen_run.last = "clean" =>
        /\ \A i \in 1..Len(Pairs) :
              /\ Cardinality(ok_records(reviews_peer, Pairs[i])) = 1
              /\ Cardinality(ok_records(reviews_vanilla, Pairs[i])) = 1
        /\ failures = 0 => /\ Len(reviews_peer) = Len(Pairs)
                           /\ Len(reviews_vanilla) = Len(Pairs)
        /\ pc \notin {"gen_peer_call", "gen_vanilla_call"}

C2_Witness ==
    /\ gen_run.last = "clean"
    /\ entry = "02_generate_reviews_dual"
    /\ pc = "gen_loop"
    /\ Len(reviews_peer) = Len(Pairs)
    /\ Len(reviews_vanilla) = Len(Pairs)

\* C3: the records of one paper carry the same (cond_A, cond_B) in the log of
\* judge 1 and in the log of judge 2, whatever was judged before the paper, in
\* whichever run, and whatever the state of the global generator.
C3_SameAssignment ==
    \A j1, j2 \in {1, 2} :
        \A i1 \in 1..Len(judgments[j1]), i2 \in 1..Len(judgments[j2]) :
            judgments[j1][i1].paper_id = judgments[j2][i2].paper_id =>
                /\ judgments[j1][i1].cond_A = judgments[j2][i2].cond_A
                /\ judgments[j1][i1].cond_B = judgments[j2][i2].cond_B

C3_Witness ==
    /\ Len(judgments[1]) = Len(Pairs)
    /\ Len(judgments[2]) = Len(Pairs)
    /\ Len(Pairs) >= 2
    /\ \E i \in 1..Len(judgments[1]) : judgments[1][i].cond_A = "peer"
    /\ \E i \in 1..Len(judgments[1]) : judgments[1][i].cond_A = "vanilla"

\* C4: whenever the loop is between two steps with a step behind it, the
\* checkpoint holds the number of the step that has just returned.
C4_CheckpointAfterEachStage ==
    (pc = "main_loop" /\ step_idx >= 1) =>
        /\ checkpoint.exists
        /\ checkpoint.last_completed_step = steps_to_run[step_idx]

\* C5: when stage k raises, the run ends there with the exception, and the
\* checkpoint written holds last_completed_step = k - 1 and a status that names
\* stage k and carries the message, whole up to 200 characters and cut to 200
\* beyond.
C5_StageRaises ==
    [][(pc # "idle" /\ pc' = "idle" /\ exit_status'.kind = "raised") =>
          /\ checkpoint'.exists
          /\ checkpoint'.last_completed_step = CurrentStep - 1
          /\ checkpoint'.status = "error_at_step"
          /\ checkpoint'.at_step = CurrentStep
          /\ \E m \in MsgLens :
                checkpoint'.msg_len = IF m > ERROR_MSG_LIMIT THEN ERROR_MSG_LIMIT ELSE m
          /\ executed' = <<>>]_vars

C5_Witness ==
    /\ pc = "idle"
    /\ exit_status.kind = "raised"
    /\ checkpoint.status = "error_at_step"
    /\ checkpoint.at_step = 3
    /\ checkpoint.last_completed_step = 2
    /\ checkpoint.msg_len = ERROR_MSG_LIMIT

\* C6: when the shutdown flag ends the run before stage k, the checkpoint it
\* leaves holds last_completed_step = k - 1 with the status interrupted.
C6_CancelledCheckpoint ==
    [][(pc = "main_loop" /\ pc' = "idle" /\ exit_status'.kind = "cancelled") =>
          /\ checkpoint'.exists
          /\ checkpoint'.last_completed_step = CurrentStep - 1
          /\ checkpoint'.status = "interrupted_at_step"]_vars

\* C7: once the shutdown flag is set, the paper loop of the stage in progress
\* issues no remote call for a further paper.
C7_NoCallAfterCancel ==
    [][(shutdown_requested /\ pc \in {"gen_loop", "judge_loop"}) =>
          pc' \notin {"gen_peer_call", "gen_vanilla_call", "judge_call"}]_vars

\* C8: when the checkpoint holds last_completed_step = k, each of the stages
\* 1..k has returned at some earlier moment.
C8_CheckpointMeansCompleted ==
    checkpoint.exists =>
        \A k \in 1..checkpoint.last_completed_step : k \in completed

\* C9 as stated: as long as no stage has failed and no cancellation was asked
\* for, a checkpoint written holds a last_completed_step at least as large as
\* the one on disk before the write.
C9_NeverDecreases ==
    [][(pc # "idle" /\ ~shutdown_requested /\ checkpoint'.status # "error_at_step") =>
          checkpoint'.last_completed_step >= load_checkpoint.last_completed_step]_vars

\* C9, amended: the same, for the runs given neither --from nor --step and for
\* the runs given --from k or --step k with k at least the last_completed_step
\* on disk when the run started.
C9_NeverDecreasesForward ==
    [][(/\ pc # "idle"
        /\ ~shutdown_requested
        /\ checkpoint'.status # "error_at_step"
        /\ (auto_resume(args) \/ steps_to_run[1] >= disk_at_start)) =>
          checkpoint'.last_completed_step >= load_checkpoint.last_completed_step]_vars

C9_Witness ==
    /\ pc = "main_loop"
    /\ args = [from_step |-> <<2>>, step |-> <<>>]
    /\ disk_at_start = 2
    /\ ~shutdown_requested
    /\ checkpoint.last_completed_step = 3

\* C10: a run given --step k (1 <= k <= 4) has exactly stage k to run, with or
\* without --from; a run given only --from k has the stages k..4; a run given
\* neither has the stages after the checkpoint's last_completed_step up to 4
\* (1..4 without a checkpoint) and does not start at all when that is 4; the
\* stages executed are a prefix of those, in order, all of them when the run
\* ends normally; and the checkpoint changes only inside a run.
C10_StagesOfARun ==
    [][/\ (pc = "idle" /\ pc' = "main_loop") =>
            /\ (args'.step # <<>> /\ args'.step[1] \in 1..MAX_STEP) =>
                  steps_to_run' = <<args'.step[1]>>
            /\ (/\ args'.step = <<>>
                /\ args'.from_step # <<>>
                /\ args'.from_step[1] \in 1..MAX_STEP) =>
                  steps_to_run' = RangeSeq(args'.from_step[1], MAX_STEP)
            /\ args' = NoArgs =>
                  /\ load_checkpoint.last_completed_step < MAX_STEP
                  /\ steps_to_run' =
                        RangeSeq(load_checkpoint.last_completed_step + 1, MAX_STEP)
       /\ executed' = SubSeq(steps_to_run', 1, step_idx')
       /\ (pc = "main_loop" /\ pc' = "idle" /\ exit_status'.kind = "done") =>
            executed = steps_to_run
       /\ pc = "idle" => checkpoint' = checkpoint]_vars

C10_Witness ==
    /\ pc = "main_loop"
    /\ args = [from_step |-> <<3>>, step |-> <<2>>]
    /\ executed = <<2>>
    /\ step_idx = Len(steps_to_run)
    /\ checkpoint.last_completed_step = 2

\* both logs hold a successful record for the paper
both_ok(p) == ok_records(reviews_peer, p) # {} /\ ok_records(reviews_vanilla, p) # {}

\* the paper loop of the generation stage has run out of papers in this step
GenLoopEnds ==
    pc = "gen_loop" /\ pc' \in {"step_1_end", "idle"} /\ gen_run'.last # "aborted"

\* the positions of all_pairs the paper loop passes over in this step
GenSkipped ==
    IF GenLoopEnds THEN idx..Len(Pairs)
    ELSE IF pc = "gen_loop" /\ pc' \in {"gen_peer_call", "gen_vanilla_call"}
         THEN idx..(idx' - 1)
         ELSE {}

\* C11: the generation stage calls the model for a (paper, condition) only when
\* the log holds no successful record for it, and passes over a paper or a
\* condition only when the log holds one; stage 1 returns as already complete
\* exactly when both logs hold a successful record for every input pair.
C11_FailedIsNotDone ==
    [][/\ (pc # pc' /\ pc' = "gen_peer_call") =>
            ok_records(reviews_peer', Pairs[idx']) = {}
       /\ (pc # pc' /\ pc' = "gen_vanilla_call") =>
            ok_records(reviews_vanilla', Pairs[idx']) = {}
       /\ \A k \in GenSkipped : both_ok(Pairs[k])
       /\ (pc = "gen_loop" /\ pc' = "gen_vanilla_call") =>
            ok_records(reviews_peer, Pairs[idx']) # {}
       /\ (pc = "gen_peer_call" /\ pc' = "gen_loop") =>
            ok_records(reviews_vanilla, Pairs[idx]) # {}
       /\ (pc = "main_loop" /\ pc' = "main_loop" /\ executed' = Append(executed, 1)) =>
            \A i \in 1..Len(Pairs) : both_ok(Pairs[i])
       /\ (pc = "main_loop" /\ pc' = "gen_loop") =>
            \E i \in 1..Len(Pairs) : ~both_ok(Pairs[i])]_vars

C11_Witness ==
    /\ pc = "gen_vanilla_call"
    /\ ok_records(reviews_peer, Pairs[idx]) # {}
    /\ Pairs[idx] \in done_peer
    /\ \E i \in 1..Len(reviews_vanilla) :
          /\ reviews_vanilla[i].paper_id = Pairs[idx]
          /\ reviews_vanilla[i].error # "none"

\* the papers with a record, of any outcome, in a log
recorded(rows) == {rows[i].paper_id : i \in 1..Len(rows)}

\* C12: a generation call that fails or returns an invalid review is written
\* to its log as a record with error set and the loop goes on with the other
\* condition or the next paper; the paper loop never ends with an exception or
\* an error checkpoint, and when it runs out of papers every input pair has a
\* record in both logs.
C12_FailureDoesNotStopStage ==
    [][/\ (pc = "gen_peer_call" /\ failures' > failures) =>
            /\ Len(reviews_peer') = Len(reviews_peer) + 1
            /\ reviews_peer'[Len(reviews_peer')].paper_id = Pairs[idx]
            /\ reviews_peer'[Len(reviews_peer')].error # "none"
            /\ pc' \in {"gen_vanilla_call", "gen_loop"}
       /\ (pc = "gen_vanilla_call" /\ failures' > failures) =>
            /\ Len(reviews_vanilla') = Len(reviews_vanilla) + 1
            /\ reviews_vanilla'[Len(reviews_vanilla')].paper_id = Pairs[idx]
            /\ reviews_vanilla'[Len(reviews_vanilla')].error # "none"
            /\ pc' = "gen_loop"
       /\ InGen => checkpoint' = checkpoint
       /\ GenLoopEnds =>
            /\ Range(Pairs) \subseteq recorded(reviews_peer')
            /\ Range(Pairs) \subseteq recorded(reviews_vanilla')]_vars

C12_Witness ==
    /\ pc = "step_1_end"
    /\ Len(Pairs) >= 2
    /\ \E i \in 1..Len(reviews_peer) :
          reviews_peer[i].paper_id = Pairs[1] /\ reviews_peer[i].error # "none"
    /\ ok_records(reviews_peer, Pairs[1]) = {}
    /\ ok_records(reviews_vanilla, Pairs[1]) # {}
    /\ both_ok(Pairs[2])

\* a (paper, condition) with a failed record and no successful one
failed_only(rows, p) ==
    /\ ok_records(rows, p) = {}
    /\ \E i \in 1..Len(rows) : rows[i].paper_id = p /\ rows[i].error # "none"

\* C13: a run given neither --from nor --step that starts while some
\* (paper, condition) has a failed record and no successful one has stage 1,
\* the only stage that calls the model for it, as its first stage.
C13_FailedRetriedOnResume ==
    [][(/\ pc = "idle"
        /\ pc' = "main_loop"
        /\ args' = NoArgs
        /\ \E i \in 1..Len(Pairs) :
              \/ failed_only(reviews_peer, Pairs[i])
              \/ failed_only(reviews_vanilla, Pairs[i])) =>
          steps_to_run'[1] = 1]_vars

\* C14: when a judge stage starts, a paper whose only record in that judge's
\* log is the record of a failed call does not count as done.
C14_JudgeFailureNotDone ==
    [][(pc = "main_loop" /\ pc' = "judge_loop") =>
          \A p \in done_ids' :
              \E i \in 1..Len(judgments[judge']) :
                  /\ judgments[judge'][i].paper_id = p
                  /\ judgments[judge'][i].reasoning # "ERROR"]_vars

\* C15: a judge response, whatever it is, never makes the stage end with an
\* exception: while a judge call is in flight no checkpoint is written, and
\* when the call returns a record for the paper is appended and the loop goes on.
C15_MalformedVerdictIsTie ==
    [][pc = "judge_call" =>
          /\ checkpoint' = checkpoint
          /\ pc' \in {"judge_call", "judge_loop"} =>
                \/ UNCHANGED judgments
                \/ /\ Len(judgments'[judge]) = Len(judgments[judge]) + 1
                   /\ judgments'[judge][Len(judgments'[judge])].paper_id = common_ids[idx]]_vars

\* C16: a record is in its log as soon as its call has returned and before the
\* next call starts; the end of a process, by a kill or otherwise, leaves the
\* logs as they are; the start of a stage keeps the successful generation
\* records and the judgment records; and a call is started only for a
\* (paper, condition) without a successful record, or a paper without a record
\* in the judge's log: a resumed run repeats no call whose result was written.
C16_KillLosesOnlyInFlight ==
    [][/\ (pc # "idle" /\ pc' = "idle") =>
            UNCHANGED <<reviews_peer, reviews_vanilla, judgments>>
       /\ (pc = "gen_peer_call" /\ pc' \in {"gen_vanilla_call", "gen_loop"}) =>
            /\ Len(reviews_peer') = Len(reviews_peer) + 1
            /\ SubSeq(reviews_peer', 1, Len(reviews_peer)) = reviews_peer
            /\ reviews_peer'[Len(reviews_peer')].paper_id = Pairs[idx]
       /\ (pc = "gen_vanilla_call" /\ pc' = "gen_loop") =>
            /\ Len(reviews_vanilla') = Len(reviews_vanilla) + 1
            /\ SubSeq(reviews_vanilla', 1, Len(reviews_vanilla)) = reviews_vanilla
            /\ reviews_vanilla'[Len(reviews_vanilla')].paper_id = Pairs[idx]
       /\ (pc = "judge_call" /\ pc' = "judge_loop") =>
            /\ Len(judgments'[judge]) = Len(judgments[judge]) + 1
            /\ SubSeq(judgments'[judge], 1, Len(judgments[judge])) = judgments[judge]
            /\ judgments'[judge][Len(judgments'[judge])].paper_id = common_ids[idx]
       /\ (pc = "main_loop" /\ pc' = "gen_loop") =>
            /\ gen_load_existing_ids(reviews_peer') = gen_load_existing_ids(reviews_peer)
            /\ gen_load_existing_ids(reviews_vanilla') =
                  gen_load_existing_ids(reviews_vanilla)
       /\ (pc = "main_loop" /\ pc' = "judge_loop") => judgments' = judgments
       /\ (pc # pc' /\ pc' = "gen_peer_call") =>
            Pairs[idx'] \notin gen_load_existing_ids(reviews_peer')
       /\ (pc # pc' /\ pc' = "gen_vanilla_call") =>
            Pairs[idx'] \notin gen_load_existing_ids(reviews_vanilla')
       /\ (pc # pc' /\ pc' = "judge_call") =>
            common_ids'[idx'] \notin recorded(judgments'[judge'])]_vars

C16_Witness ==
    /\ pc = "judge_call"
    /\ Len(common_ids) >= 2
    /\ idx = 2
    /\ done_ids = {common_ids[1]}
    /\ Len(judgments[judge]) = 1
    /\ judgments[judge][1].paper_id = common_ids[1]

\* the records of a log for one paper
records_of(rows, p) == {i \in 1..Len(rows) : rows[i].paper_id = p}

\* C17: each review log holds at most one record per paper (the log is the
\* condition), successful or failed.
C17_OneReviewRecordPerKey ==
    \A i \in 1..Len(Pairs) :
        /\ Cardinality(records_of(reviews_peer, Pairs[i])) <= 1
        /\ Cardinality(records_of(reviews_vanilla, Pairs[i])) <= 1

\* C18: each judgment log holds at most one record per paper, and a judge call
\* is started only for a paper without a record in that judge's log.
C18_OneJudgmentPerPaper ==
    [][/\ \A j \in {1, 2} : \A i \in 1..Len(Pairs) :
              Cardinality(records_of(judgments'[j], Pairs[i])) <= 1
       /\ (pc # pc' /\ pc' = "judge_call") =>
              records_of(judgments'[judge'], common_ids'[idx']) = {}]_vars

C18_Witness ==
    /\ pc = "judge_call"
    /\ Len(common_ids) >= 2
    /\ idx = 2
    /\ done_ids = {common_ids[1]}
    /\ Len(judgments[judge]) = 1
    /\ judgments[judge][1].reasoning = "ERROR"

\* s is an initial part of t
IsPrefix(s, t) == Len(s) <= Len(t) /\ SubSeq(t, 1, Len(s)) = s

\* C19: every step leaves each record log as it was or with records added at
\* its end.
C19_AppendOnly ==
    [][/\ IsPrefix(reviews_peer, reviews_peer')
       /\ IsPrefix(reviews_vanilla, reviews_vanilla')
       /\ IsPrefix(judgments[1], judgments'[1])
       /\ IsPrefix(judgments[2], judgments'[2])]_vars

\* C20: whenever stage 4 runs its body with both judgment logs present, the
\* two logs have the same length and hold the same paper at each position.
C20_KappaAligned ==
    [][(/\ pc = "main_loop"
        /\ executed' = Append(executed, 4)
        /\ judgments_exist[1]
        /\ judgments_exist[2]) =>
          /\ Len(judgments[1]) = Len(judgments[2])
          /\ \A i \in 1..Len(judgments[1]) :
                judgments[1][i].paper_id = judgments[2][i].paper_id]_vars

\* position of a paper in pairs.jsonl
pairs_position(p) == CHOOSE i \in 1..Len(Pairs) : Pairs[i] = p

\* the records of a log follow the order of pairs.jsonl
in_pairs_order(rows) ==
    \A i, k \in 1..Len(rows) :
        i < k => pairs_position(rows[i].paper_id) <= pairs_position(rows[k].paper_id)

\* C21: in the generation stage and in each judge stage the papers are taken in
\* the order of pairs.jsonl, in first and in resumed runs, so the records of
\* each log follow the order of pairs.jsonl.
C21_PairsOrder ==
    /\ in_pairs_order(reviews_peer)
    /\ in_pairs_order(reviews_vanilla)
    /\ \A j \in {1, 2} : in_pairs_order(judgments[j])

\* the request met a condition generate retries on
met_retryable(o) ==
    \/ o.kind = "response" /\ o.status \in {429, 500, 502, 503, 504}
    \/ o.kind \in {"Timeout", "ConnectionError"}

\* the request was answered with status 200 and a text that is not blank
met_success(o) ==
    /\ o.kind = "response"
    /\ o.status = 200
    /\ \E i \in 1..Len(o.content) : o.content[i] # " "

\* C22: one call of generate issues at most MAX_RETRIES (3) requests and always
\* ends: it returns at the first request that succeeds, no request follows it,
\* after 3 requests that met a retryable condition it raises, and a call in
\* progress eventually returns or raises.
C22_BoundedRetries ==
    /\ [](/\ Len(requests) <= 3
          /\ \A i \in 1..Len(requests) :
                met_success(requests[i]) => i = Len(requests) /\ client.pc = "returned"
          /\ (Len(requests) = 3 /\ \A i \in 1..3 : met_retryable(requests[i]))
                => client.pc = "raised")
    /\ (client.pc = "request" ~> client.pc \in {"returned", "raised"})

C22_Witness ==
    /\ Len(requests) = 3
    /\ \A i \in 1..3 : met_retryable(requests[i])
    /\ client.pc = "raised"

\* C23: a request that met a status in {429, 500, 502, 503, 504}, a timeout or
\* a connection error is followed by another attempt while attempts remain; a
\* response with any other status except 200 ends the call with an exception,
\* and no request follows it.
C23_RetryableOrTerminal ==
    \A i \in 1..Len(requests) :
        /\ (met_retryable(requests[i]) /\ i < 3 /\ i = Len(requests))
              => client.pc = "request" /\ client.attempt = i + 1
        /\ (requests[i].kind = "response"
               /\ requests[i].status \notin {200, 429, 500, 502, 503, 504})
              => i = Len(requests) /\ client.pc = "raised"

C23_Witness ==
    /\ Len(requests) = 2
    /\ requests[1].kind = "response" /\ requests[1].status = 429
    /\ requests[2].kind = "response" /\ requests[2].status = 400
    /\ client.pc = "raised"

\* C24: what generate returns is the text of a 200 response without its
\* surrounding blanks, and is not empty; a 200 response with an empty or blank
\* text makes the call raise with no further request; when the attempts are
\* used up the exception raised is the one of the last request.
C24_NonEmptyContent ==
    /\ client.pc = "returned" =>
          LET text == requests[Len(requests)].content
          IN /\ requests[Len(requests)].status = 200
             /\ client.content # <<>>
             /\ client.content[1] # " "
             /\ client.content[Len(client.content)] # " "
             /\ \E a, b \in 1..Len(text) :
                   /\ client.content = SubSeq(text, a, b)
                   /\ \A i \in 1..Len(text) : (i < a \/ i > b) => text[i] = " "
    /\ \A i \in 1..Len(requests) :
          (/\ requests[i].kind = "response"
           /\ requests[i].status = 200
           /\ \A k \in 1..Len(requests[i].content) : requests[i].content[k] = " ")
          => /\ i = Len(requests)
             /\ client.pc = "raised"
             /\ client.raised.error = "Empty response from model."
    /\ (client.pc = "raised" /\ Len(requests) = 3 /\ met_retryable(requests[3]))
          => client.raised =
                (IF requests[3].kind = "response" THEN Error("HTTP", requests[3].status)
                 ELSE IF requests[3].kind = "Timeout"
                 THEN Error("Request timed out after 180s", 0)
                 ELSE Error("Connection error", 0))

C24_Witness ==
    /\ client.pc = "raised"
    /\ Len(requests) = 3
    /\ requests[1].kind = "Timeout"
    /\ requests[3].kind = "response"
    /\ client.raised = Error("HTTP", 503)

\* C25: a run given --status executes no stage and issues no remote call,
\* whether the API key is set or not, leaves the checkpoint file and the four
\* record logs as they are, and the counts it reports are those of the files
\* at that moment.
C25_StatusReadOnly ==
    [][(call' # call /\ call'.fn = "get_status") =>
          /\ checkpoint' = checkpoint
          /\ reviews_peer' = reviews_peer
          /\ reviews_vanilla' = reviews_vanilla
          /\ judgments' = judgments
          /\ pc = "idle" /\ pc' = "idle"
          /\ executed' = executed
          /\ client' = client /\ requests' = requests
          /\ call'.result.checkpoint.last_completed_step =
                (IF checkpoint.exists THEN checkpoint.last_completed_step ELSE 0)
          /\ call'.result.checkpoint.status =
                (IF checkpoint.exists THEN checkpoint.status ELSE "not_started")
          /\ call'.result.pairs = Len(env.pairs)
          /\ call'.result.reviews_peer =
                Cardinality({i \in 1..Len(reviews_peer) : reviews_peer[i].error = "none"})
          /\ call'.result.reviews_vanilla =
                Cardinality({i \in 1..Len(reviews_vanilla) :
                               reviews_vanilla[i].error = "none"})
          /\ call'.result.judgments_claude = Len(judgments[1])
          /\ call'.result.judgments_gpt = Len(judgments[2])]_vars

\* a status asked without the key, after a run that left a failed review and
\* a checkpoint: the failed record is in the log and is not counted
C25_Witness ==
    /\ call.fn = "get_status"
    /\ ~call.api_key
    /\ pc = "idle"
    /\ \E i \in 1..Len(reviews_peer) : reviews_peer[i].error # "none"
    /\ call.result.reviews_peer = 0
    /\ call.result.reviews_vanilla = 1
    /\ call.result.checkpoint.last_completed_step = 1
    /\ checkpoint.last_completed_step = 1

\* C26: a run without --status started while OPENROUTER_API_KEY is not set
\* exits with code 1 with no stage entered, the checkpoint file and the record
\* logs left as they are; no process is ever inside the runner without the key.
C26_NoKeyNoRun ==
    /\ [](Running => api_key)
    /\ [][(exit_status' # exit_status /\ exit_status'.kind = "exit_1") =>
             /\ files' = files
             /\ pc = "idle" /\ pc' = "idle"
             /\ executed' = executed
             /\ completed' = completed]_vars

\* a run without the key after a run that was stopped with work left on disk
C26_Witness ==
    /\ exit_status.kind = "exit_1"
    /\ pc = "idle"
    /\ checkpoint.last_completed_step = 2
    /\ Len(judgments[1]) = 1

\* the stage a step belongs to: the stage in progress, or the one the loop is
\* about to call (0 outside the stages)
StageOfStep ==
    IF pc = "main_loop"
    THEN IF step_idx < Len(steps_to_run) THEN steps_to_run[step_idx + 1] ELSE 0
    ELSE step_num

\* C27: the steps of stage 4 leave the two review logs and the two judgment
\* logs as they are, the steps of a judge stage leave the review logs and the
\* log of the other judge as they are, and the steps of the generation stage
\* leave both judgment logs as they are.
C27_StagesOnlyRead ==
    [][/\ StageOfStep = 1 =>
            judgments' = judgments /\ judgments_exist' = judgments_exist
       /\ StageOfStep \in {2, 3} =>
            /\ reviews_peer' = reviews_peer
            /\ reviews_vanilla' = reviews_vanilla
            /\ judgments'[4 - StageOfStep] = judgments[4 - StageOfStep]
            /\ judgments_exist'[4 - StageOfStep] = judgments_exist[4 - StageOfStep]
       /\ StageOfStep = 4 =>
            /\ reviews_peer' = reviews_peer
            /\ reviews_vanilla' = reviews_vanilla
            /\ judgments' = judgments
            /\ judgments_exist' = judgments_exist]_vars

\* stage 4 has returned in a run in which every stage wrote its own log
C27_Witness ==
    /\ pc = "main_loop"
    /\ executed = <<1, 2, 3, 4>>
    /\ checkpoint.last_completed_step = 4
    /\ reviews_peer # <<>> /\ reviews_vanilla # <<>>
    /\ judgments[1] # <<>> /\ judgments[2] # <<>>

\* the text is the letter lo or up with nothing but blanks around it
is_letter(text, lo, up) ==
    \E i \in 1..Len(text) :
        /\ text[i] \in {lo, up}
        /\ \A k \in 1..Len(text) : k # i => text[k] = " "

\* C28: resolve_winner gives every record one outcome: the condition of slot A
\* for the winner a in either case with blanks around it, the condition of
\* slot B for b, and tie for tie and for every other or missing winner.
C28_ResolveTotal ==
    (call.fn = "resolve_winner" /\ call.result # Pending) =>
        /\ call.result.state = "returned"
        /\ call.result.value =
              (IF call.args.winner.type = "str" /\ is_letter(call.args.winner.text, "a", "A")
               THEN call.args.cond_A
               ELSE IF call.args.winner.type = "str"
                       /\ is_letter(call.args.winner.text, "b", "B")
               THEN call.args.cond_B
               ELSE "tie")

\* a binomial test with p0 = 0.5 has returned
BinomialReturned ==
    /\ call.fn = "binomial_test_two_sided"
    /\ call.result.state = "returned"
    /\ call.args.p0 = [num |-> 1, den |-> 2]

\* the value of the test for the failures in place of the successes, on the
\* same platform
Mirrored ==
    binomial_test_two_sided(call.args.trials - call.args.successes, call.args.trials,
                            call.args.p0, call.args.rounding)

\* C29 as stated: binomial_test_two_sided(k, n, 0.5) and
\* binomial_test_two_sided(n - k, n, 0.5) are the same number.
C29_Symmetric == BinomialReturned => call.result.value = Mirrored

\* C29, amended: the two numbers are the same up to the rounding of the terms
\* of the sum: they differ by at most 2 (n + 1) units of the precision.
C29_SymmetricUpToRounding ==
    BinomialReturned =>
        /\ call.result.value - Mirrored <= 2 * (call.args.trials + 1)
        /\ Mirrored - call.result.value <= 2 * (call.args.trials + 1)

\* 1 success of 4, with a rounding error in a term: the p-value is 5/8
C29_Witness ==
    /\ BinomialReturned
    /\ call.args.trials = 4
    /\ call.args.successes = 1
    /\ \E i \in 0..4 : call.args.rounding[i] # 0
    /\ call.result.value < SCALE
    /\ call.result.value > SCALE \div 2

\* analyze_single_judge has returned for a log with 8 peer wins, no vanilla win
\* and any number of ties
EightOfEight ==
    /\ call.fn = "analyze_single_judge"
    /\ call.result.state = "returned"
    /\ Cardinality({i \in 1..Len(call.args.outcomes) : call.args.outcomes[i] = "peer"}) = 8
    /\ \A i \in 1..Len(call.args.outcomes) : call.args.outcomes[i] \in {"peer", "tie"}

\* C30: for a judge log with 8 peer wins of 8 outcomes that are not ties,
\* analyze_single_judge reports the p-value 2/256 (up to the rounding of the 8
\* terms of the sum), significant_at_005 true and a lower bound of the Wilson
\* interval above 0.5.
C30_EightOfEight ==
    EightOfEight =>
        /\ call.result.value.binomial_p_value - (2 * SCALE) \div 256 <= 18
        /\ (2 * SCALE) \div 256 - call.result.value.binomial_p_value <= 18
        /\ call.result.value.significant_at_005
        /\ 2 * call.result.value.ci_95_lower > SCALE

C30_Witness ==
    /\ EightOfEight
    /\ call.result.value.ties = 2
    /\ call.result.value.total_examples = 10
    /\ \E i \in 0..8 : call.args.rounding[i] # 0

\* wilson_ci has returned for at least one trial
WilsonReturned ==
    /\ call.fn = "wilson_ci"
    /\ call.result.state = "returned"
    /\ call.args.trials >= 1

\* C31: for n >= 1 and 0 <= k <= n, wilson_ci(k, n) returns (low, high) with
\* 0 <= low <= k/n <= high <= 1, also for k = 0 and for k = n
C31_WilsonBounds ==
    WilsonReturned =>
        LET low == call.result.value[1]
            high == call.result.value[2]
            k == call.args.successes
            n == call.args.trials
        IN /\ 0 <= low
           /\ low * n <= k * SCALE
           /\ k * SCALE <= high * n
           /\ high <= SCALE

\* cohens_kappa has returned
KappaReturned == call.fn = "cohens_kappa" /\ call.result.state = "returned"

\* C32: for every outcome list L, of any length and any labels,
\* cohens_kappa(L, L) returns 1.0
C32_IdenticalLists ==
    (KappaReturned /\ call.args.outcomes_1 = call.args.outcomes_2)
        => call.result.value = SCALE

\* C32, amended: cohens_kappa(L, L) returns 1.0 for every list L that is not
\* empty, whatever its labels, and 0.0 for the empty list
C32_IdenticalNonEmpty ==
    (KappaReturned /\ call.args.outcomes_1 = call.args.outcomes_2)
        => call.result.value = IF Len(call.args.outcomes_1) > 0 THEN SCALE ELSE 0

\* cohens_kappa has returned for a list of several labels, one of them none
\* of peer, vanilla, tie, and itself
C32_Witness ==
    /\ KappaReturned
    /\ call.args.outcomes_1 = call.args.outcomes_2
    /\ Cardinality(kappa_categories(call.args.outcomes_1, call.args.outcomes_2)) > 3
    /\ call.result.value = SCALE

\* cohens_kappa has returned for the outcome lists [win, win, tie, lose] and
\* [win, lose, tie, lose] of two judges, a win being an outcome of peer and a
\* loss one of vanilla
KappaExample ==
    /\ KappaReturned
    /\ call.args.outcomes_1 = <<"peer", "peer", "tie", "vanilla">>
    /\ call.args.outcomes_2 = <<"peer", "vanilla", "tie", "vanilla">>

\* the expected agreement of call's lists
ExampleExpected ==
    kappa_p_e(call.args.outcomes_1, call.args.outcomes_2,
              kappa_categories(call.args.outcomes_1, call.args.outcomes_2))

\* C33: for [win, win, tie, lose] and [win, lose, tie, lose] cohens_kappa uses
\* the observed agreement 0.5 and the expected agreement of the marginals,
\* 5/16, and returns the kappa that follows from the two, 3/11
C33_ExampleHalf ==
    KappaExample =>
        /\ 2 * kappa_p_o(call.args.outcomes_1, call.args.outcomes_2) = SCALE
        /\ 16 * ExampleExpected = 5 * SCALE
        /\ 11 * call.result.value <= 3 * SCALE
        /\ 3 * SCALE < 11 * (call.result.value + 1)

\* C33, amended: the three positions 1, 3 and 4 agree, so cohens_kappa uses
\* the observed agreement 0.75 and the expected agreement 5/16 and returns 7/11
C33_ExampleThreeQuarters ==
    KappaExample =>
        /\ 4 * kappa_p_o(call.args.outcomes_1, call.args.outcomes_2) = 3 * SCALE
        /\ 16 * ExampleExpected = 5 * SCALE
        /\ 11 * call.result.value <= 7 * SCALE
        /\ 7 * SCALE < 11 * (call.result.value + 1)

\* cohens_kappa has returned a value between 0.63 and 0.64 for the two lists
C33_Witness ==
    /\ KappaExample
    /\ 100 * call.result.value > 63 * SCALE
    /\ 100 * call.result.value < 64 * SCALE

\* cohens_kappa has returned for two lists of the same length, not empty
KappaEqualLength ==
    /\ KappaReturned
    /\ Len(call.args.outcomes_1) = Len(call.args.outcomes_2)
    /\ Len(call.args.outcomes_1) > 0

\* n * n times the sum over the labels of the product of the two marginal
\* frequencies of call's lists, a whole number
RECURSIVE ExactExpected(_)
ExactExpected(cats) ==
    IF cats = {} THEN 0
    ELSE LET cat == CHOOSE c \in cats : TRUE
         IN ExactExpected(cats \ {cat})
            + counts_get(call.args.outcomes_1, cat) * counts_get(call.args.outcomes_2, cat)

\* n * n times the fraction of the positions where call's lists agree
ExactObserved ==
    Len(call.args.outcomes_1)
    * Cardinality({i \in 1..Len(call.args.outcomes_1) :
                      call.args.outcomes_1[i] = call.args.outcomes_2[i]})

\* n * n times p_e and n * n of call's lists
ExactChance == ExactExpected(kappa_categories(call.args.outcomes_1, call.args.outcomes_2))
ExactOne == Len(call.args.outcomes_1) * Len(call.args.outcomes_1)

\* the result of call is (p_o - p_e) / (1 - p_e) to within units units
KappaWithin(units) ==
    LET lhs == call.result.value * (ExactOne - ExactChance)
        rhs == SCALE * (ExactObserved - ExactChance)
    IN /\ lhs - rhs <= units * (ExactOne - ExactChance)
       /\ rhs - lhs <= units * (ExactOne - ExactChance)

\* C34: for two lists of equal non-zero length cohens_kappa returns
\* (p_o - p_e) / (1 - p_e), p_o the fraction of agreeing positions and p_e the
\* sum over the labels of the products of the marginal frequencies; it
\* returns 1 when p_e = 1, and a result <= 0 whenever p_o <= p_e
C34_KappaFormula ==
    KappaEqualLength =>
        /\ ExactChance = ExactOne => call.result.value = SCALE
        /\ ExactChance < ExactOne => KappaWithin(8)
        /\ ExactObserved <= ExactChance /\ ExactChance < ExactOne
              => call.result.value <= 0

\* the p_o and the p_e that cohens_kappa computes for call's lists
ComputedObserved == kappa_p_o(call.args.outcomes_1, call.args.outcomes_2)
ComputedChance == ExampleExpected

\* C34, amended: for two lists of equal non-zero length cohens_kappa returns
\* (p_o - p_e) / (1 - p_e) up to rounding, and 1 when p_e = 1; its result is
\* <= 0 whenever the p_o it computes is <= the p_e it computes
C34_KappaComputed ==
    KappaEqualLength =>
        /\ ExactChance = ExactOne => call.result.value = SCALE
        /\ ExactChance < ExactOne => KappaWithin(8)
        /\ ComputedObserved <= ComputedChance /\ ComputedChance < SCALE
              => call.result.value <= 0

\* cohens_kappa has returned -1 for two lists with p_o = 0 and p_e = 1/2
C34_Witness ==
    /\ KappaEqualLength
    /\ ExactObserved <= ExactChance
    /\ ExactChance < ExactOne
    /\ call.result.value = -SCALE

\* cohens_kappa has returned a positive result for two lists of 7 outcomes
\* with p_o = p_e = 3/7
C34_RoundedUp ==
    /\ KappaEqualLength
    /\ Len(call.args.outcomes_1) = 7
    /\ ExactObserved = ExactChance
    /\ call.result.value > 0

\* the number of the 2^n outcomes of n fair trials with from..to successes
RECURSIVE Outcomes2(_, _, _)
Outcomes2(n, from, to) ==
    IF from > to THEN 0
    ELSE factorial(n) \div (factorial(from) * factorial(n - from)) + Outcomes2(n, from + 1, to)

\* 2^n times min(1, 2 min(P(X >= k), P(X <= k))) for X binomial(n, 0.5) and
\* the k and n of call
ExactTwoSided ==
    LET n == call.args.trials
        k == call.args.successes
    IN Min(2 ^ n, 2 * Min(Outcomes2(n, k, n), Outcomes2(n, 0, k)))

\* C35: binomial_test_two_sided(k, n, 0.5) is min(1, 2 min(P(X >= k),
\* P(X <= k))) for X binomial(n, 0.5), up to the rounding of the n + 1 terms
\* summed, lies in [0, 1] for all 0 <= k <= n, and is 1.0 when n = 0
C35_TwoSidedValue ==
    BinomialReturned =>
        LET n == call.args.trials
            value == call.result.value
        IN /\ 0 <= value /\ value <= SCALE
           /\ n = 0 => value = SCALE
           /\ value * 2 ^ n - SCALE * ExactTwoSided <= 2 * (n + 1) * 2 ^ n
           /\ SCALE * ExactTwoSided - value * 2 ^ n <= 2 * (n + 1) * 2 ^ n

\* binomial_test_two_sided has returned about 12/32 for 1 success of 5, with a
\* rounding error in a term
C35_Witness ==
    /\ BinomialReturned
    /\ call.args.trials = 5
    /\ call.args.successes = 1
    /\ \E i \in 0..5 : call.args.rounding[i] # 0
    /\ 32 * call.result.value > 11 * SCALE
    /\ 32 * call.result.value < 13 * SCALE

\* binomial_test_two_sided has returned 1.0 for no trial
C35_NoTrial ==
    /\ BinomialReturned
    /\ call.args.trials = 0
    /\ call.result.value = SCALE

\* the judge stage in progress appends a record to its log in this step
JudgmentWritten ==
    /\ pc = "judge_call"
    /\ Len(judgments'[out_path(judge)]) = Len(judgments[out_path(judge)]) + 1

\* the record it appends
WrittenRecord == LastOf(judgments'[out_path(judge)])

\* the review log of a condition
ReviewLog(condition) == IF condition = "peer" THEN reviews_peer ELSE reviews_vanilla

\* review is a successful record of the condition for the paper, in its log
SuccessfulReview(review, paper_id, condition) ==
    /\ review.paper_id = paper_id
    /\ review.condition = condition
    /\ review.error = "none"
    /\ \E i \in 1..Len(ReviewLog(condition)) : ReviewLog(condition)[i] = review

\* C36: every record a judge stage writes has {cond_A, cond_B} = {peer,
\* vanilla}, cond_A # cond_B, and the prompt of its call showed in slot A
\* (slot B) the successful review of the condition recorded as cond_A (cond_B)
\* for the same paper
C36_SlotsMatchRecord ==
    [][JudgmentWritten =>
          /\ {WrittenRecord.cond_A, WrittenRecord.cond_B} = {"peer", "vanilla"}
          /\ WrittenRecord.cond_A # WrittenRecord.cond_B
          /\ call.fn = "client.generate"
          /\ call.paper_id = WrittenRecord.paper_id
          /\ SuccessfulReview(call.review_A, WrittenRecord.paper_id, WrittenRecord.cond_A)
          /\ SuccessfulReview(call.review_B, WrittenRecord.paper_id, WrittenRecord.cond_B)]_vars

\* both judge logs hold a record with peer in slot A and a record with vanilla
\* in slot A, and the peer review log holds a failed record
C36_Witness ==
    /\ \A j \in {1, 2} : \E i, k \in 1..Len(judgments[j]) :
          judgments[j][i].cond_A = "peer" /\ judgments[j][k].cond_A = "vanilla"
    /\ \E i \in 1..Len(reviews_peer) : reviews_peer[i].error # "none"

\* the paper is in pairs.jsonl and has a record with error null in both
\* review logs
Reviewed(paper_id) ==
    /\ paper_id \in Range(Pairs)
    /\ \E i \in 1..Len(reviews_peer) :
          reviews_peer[i].paper_id = paper_id /\ reviews_peer[i].error = "none"
    /\ \E i \in 1..Len(reviews_vanilla) :
          reviews_vanilla[i].paper_id = paper_id /\ reviews_vanilla[i].error = "none"

\* a judge stage is between its start and its return
InJudge == pc \in {"judge_loop", "judge_call", "judge_end"}

\* C37: a judge stage sends a paper to the judge only if the paper is in
\* pairs.jsonl and has a record with error null in both review logs, as they
\* are when the stage starts (the stage leaves them as they are); a paper with
\* a failed or missing review in either condition gets no record in that run
C37_OnlyReviewedPapers ==
    /\ [](pc = "judge_call" => Reviewed(common_ids[idx]))
    /\ [][/\ InJudge /\ InJudge' =>
                reviews_peer' = reviews_peer /\ reviews_vanilla' = reviews_vanilla
          /\ JudgmentWritten => Reviewed(WrittenRecord.paper_id)]_vars

\* a judge stage has ended with a record for one paper and none for another
\* paper of pairs.jsonl, whose review failed in a condition
C37_Witness ==
    /\ pc = "judge_end"
    /\ \E p, q \in Range(Pairs) :
          /\ Reviewed(p)
          /\ ~Reviewed(q)
          /\ \E i \in 1..Len(judgments[out_path(judge)]) :
                judgments[out_path(judge)][i].paper_id = p
          /\ \A i \in 1..Len(judgments[out_path(judge)]) :
                judgments[out_path(judge)][i].paper_id # q
          /\ \E i \in 1..Len(reviews_vanilla) :
                reviews_vanilla[i].paper_id = q /\ reviews_vanilla[i].error # "none"

\* the number of records of the paper in the log of judge j
JudgmentCount(j, paper_id) ==
    Cardinality({i \in 1..Len(judgments[j]) : judgments[j][i].paper_id = paper_id})

\* C38: whenever the checkpoint is at last_completed_step = 4, every input
\* pair has a successful peer review, a successful vanilla review and one
\* record in each of the two judgment logs
C38_CompleteMeansAll ==
    load_checkpoint.last_completed_step = MAX_STEP =>
        \A p \in Range(Pairs) :
            /\ Reviewed(p)
            /\ \A j \in {1, 2} : JudgmentCount(j, p) = 1

\* an auto-resume run that found last_completed_step = 0, as with no
\* checkpoint on disk, is in progress
FreshRun == Running /\ entry = "run_experiment" /\ auto_resume(args) /\ disk_at_start = 0

\* C39: from no checkpoint, with the key set, no cancellation and every remote
\* call answered, an auto-resume run executes the stages 1, 2, 3, 4 in this
\* order, each once, and ends with the checkpoint at last_completed_step = 4
C39_RunsToCompletion ==
    /\ [][FreshRun /\ pc' = "idle" =>
              /\ executed = <<1, 2, 3, 4>>
              /\ load_checkpoint'.last_completed_step = MAX_STEP]_vars
    /\ [](FreshRun => \A i \in 1..Len(executed) : executed[i] = i)
    /\ (FreshRun ~> load_checkpoint.last_completed_step = MAX_STEP)

\* both reports of step 4 have been made for a judge log
ReportsReturned ==
    call.fn = "step_4_summarize_and_stats" /\ call.result.state = "returned"

\* C40: for every judgment log summarize_judgments and analyze_single_judge
\* report the same peer_wins, vanilla_wins and ties, the three sum to the
\* number of records, and both report the same peer win rate over the
\* non-tie records, also when a record's winner is none of a, b, tie
C40_ReportsAgree ==
    ReportsReturned =>
        LET summary == call.result.value.summary
            stats == call.result.value.stats
        IN /\ summary.peer_wins = stats.peer_wins
           /\ summary.vanilla_wins = stats.vanilla_wins
           /\ summary.ties = stats.ties
           /\ summary.peer_wins + summary.vanilla_wins + summary.ties = Len(call.args.rows)
           /\ stats.peer_wins + stats.vanilla_wins + stats.ties = Len(call.args.rows)
           /\ summary.peer_win_rate_non_tie = stats.peer_win_rate_non_tie

====
